---- MODULE Spec2Model ----
(***************************************************************************)
(* Real-time session engine of ciphernode-game: the socket handlers of the *)
(* server (join game, chat message, submit score, use energy, check        *)
(* energy, request leaderboard update, request user sync, disconnect), the *)
(* one-minute energy sweep, and the SupabaseDB adapter they call.          *)
(* Time is in milliseconds, as Date.now() is.                              *)
(***************************************************************************)
EXTENDS Integers, Sequences, FiniteSets, TLC

----------------------------------------------------------------------------
(* Bounds of the model *)

\* number of clock advances in one behaviour
MaxTicks == 1
\* number of socket events and sweep steps handled in one behaviour
MaxEvents == 4
\* number of games one identity's row may count
MaxGames == 11
\* number of successful 'join game' events on one connection
MaxJoins == 7
\* value socket.rateLimitViolations may reach
MaxViolations == 5
\* number of updateLeaderboard calls of one connection awaiting storage
MaxPending == 2
\* number of handler runs suspended on a storage call at one time
MaxCalls == 2

\* live connections and registered identities
Sockets == {"s1", "s2"}
Users == {"alice", "bob"}

\* amounts by which the wall clock advances between events:
\* under and at the 5 s score gate, and one regeneration interval
TickSteps == {2000, 5000, 300000}

\* wall clock at server start (any positive epoch time)
StartTime == 20 * 60000

----------------------------------------------------------------------------
(* Program constants *)

ENERGY_REGENERATION_MINUTES == 5
MAX_ENERGY == 100
GAME_ENERGY_COST == 10
INITIAL_ENERGY == 100
\* minimum distance of two score submissions of one socket, ms
SCORE_SUBMIT_GAP == 5000
MAX_SCORE == 1000000
MAX_GAME_TIME == 3600
MAX_LEVEL == 1000
\* use energy accepts amounts up to this before comparing with the cost
MAX_ENERGY_REQUEST == 100
\* anti-cheat ceiling: level * SCORE_PER_LEVEL + SCORE_BUFFER
SCORE_PER_LEVEL == 150
SCORE_BUFFER == 500
MS_PER_MINUTE == 1000 * 60
LEADERBOARD_LIMIT == 10

\* SQL NULL / JavaScript null in a numeric column or field
Null == -1
\* socket.currentUser = null
NoUser == "null"

Max(a, b) == IF a >= b THEN a ELSE b
Min(a, b) == IF a <= b THEN a ELSE b

\* JavaScript truthiness of a nullable number: null, undefined and 0 are falsy
Falsy(x) == x = Null \/ x = 0

\* JavaScript %: the result takes the sign of the dividend
JsMod(a, b) == IF a >= 0 THEN a % b ELSE 0 - ((0 - a) % b)

----------------------------------------------------------------------------
(* State *)

VARIABLES
    now,                  \* Date.now()
    ticks,                \* clock advances so far
    events,               \* socket events and sweep steps handled so far
    users,                \* users table, by username
    user_achievements,    \* user_achievements table: unlocked ids by username
    dbConnectionHealthy,  \* set by initializeDatabase
    dbStub,               \* db was replaced by the emergency fallback object
    stores,               \* by adapter: one user's row after the same calls
    connected,            \* the socket is open
    currentUser,          \* socket.currentUser
    isAuthenticated,      \* socket.isAuthenticated
    lastScoreSubmit,      \* socket.lastScoreSubmit (0: not set)
    lastMessages,         \* socket.lastMessages
    rateLimitViolations,  \* socket.rateLimitViolations
    connectedUsers,       \* connectedUsers of the connection's closure
    leaderboardCache,     \* leaderboardCache of the connection's closure
    lastLeaderboardUpdate,\* lastLeaderboardUpdate of the connection's closure
    pendingRefresh,       \* updateLeaderboard calls awaiting db.getLeaderboard
    calls,                \* handler runs suspended on a storage call
    sweepQueue,           \* sockets the running energy sweep has yet to visit
    nextSweepAt,          \* when the sweep interval fires next
    lastAccepted,         \* by username: time of the last committed submission
    announced,            \* by username: ids already sent as new achievements
    chatLog,              \* by socket: times of its messages sent to everyone
    connectedAt,          \* by socket: time of its 'connection' event
    lastEvent             \* what the last handler run did

dbVars == <<users, user_achievements>>
authVars == <<currentUser, isAuthenticated, connectedUsers>>
chatVars == <<lastMessages, rateLimitViolations, chatLog>>
cacheVars == <<leaderboardCache, lastLeaderboardUpdate>>
sweepVars == <<sweepQueue, nextSweepAt>>
ghostVars == <<lastAccepted, announced, connectedAt>>
initVars == <<dbConnectionHealthy, dbStub, stores>>
flightVars == <<pendingRefresh, calls>>
clockVars == <<now, ticks>>
budgetVars == <<now, ticks, events>>
vars == <<now, ticks, events, users, user_achievements, dbConnectionHealthy, dbStub,
          stores,
          connected, currentUser, isAuthenticated, lastScoreSubmit,
          lastMessages, rateLimitViolations,
          connectedUsers, leaderboardCache, lastLeaderboardUpdate,
          pendingRefresh, calls, sweepQueue, nextSweepAt, lastAccepted, announced,
          chatLog, connectedAt, lastEvent>>

----------------------------------------------------------------------------
(* Values a client can send *)

\* a JSON value in a numeric position: an integer, or anything else
\* (a fraction, a string, undefined), for which only "not an integer" matters
Int_(n) == [isInt |-> TRUE, v |-> n]
NotInt == [isInt |-> FALSE, v |-> 0]
\* a JSON value in a boolean position
Bool_(b) == [isBool |-> TRUE, v |-> b]
NotBool == [isBool |-> FALSE, v |-> FALSE]

\* 'submit score' payloads: wins in 0 s and in 30 s, a loss, a score over
\* the ceiling of its level, and one valid payload with one field replaced
\* by a value out of range or of the wrong type
Data(score, level, gameTime, won) ==
    [score |-> score, level |-> level, gameTime |-> gameTime, won |-> won]

ValidData ==
    {Data(Int_(100), Int_(5), Int_(0), Bool_(TRUE)),
     Data(Int_(100), Int_(5), Int_(30), Bool_(TRUE)),
     Data(Int_(100), Int_(5), Int_(30), Bool_(FALSE)),
     Data(Int_(100000), Int_(5), Int_(30), Bool_(TRUE))}

InvalidData ==
    LET d == Data(Int_(100), Int_(5), Int_(30), Bool_(TRUE))
    IN  {[d EXCEPT !.score = x] :
            x \in {Int_(0 - 1), Int_(MAX_SCORE + 1), NotInt}}
        \cup {[d EXCEPT !.level = x] :
                 x \in {Int_(0), Int_(MAX_LEVEL + 1), NotInt}}
        \cup {[d EXCEPT !.gameTime = x] :
                 x \in {Int_(0 - 1), Int_(MAX_GAME_TIME + 1), NotInt}}
        \cup {[d EXCEPT !.won = NotBool]}

SubmitInputs == ValidData \cup InvalidData

\* no payload
NoData == Data(NotInt, NotInt, NotInt, NotBool)

AmountInputs == {Int_(0), Int_(5), Int_(GAME_ENERGY_COST), Int_(20),
                 Int_(MAX_ENERGY_REQUEST + 1), NotInt}
\* a chat payload: whether it is a string, and the length of what
\* validator.sanitizeString(msg, 500) leaves of it
Msg_(n) == [isString |-> TRUE, cleanLength |-> n]
NotString == [isString |-> FALSE, cleanLength |-> 0]
MsgInputs == {Msg_(0), Msg_(12), NotString}

\* a JWT: one valid token per identity, a token that fails verification,
\* and no token at all
NoToken == "none"
BadToken == "bad"
Tokens == Users \cup {BadToken, NoToken}

----------------------------------------------------------------------------
(* utils/validator.js *)

\* isValidScore without its upper limit
isValidScore_NoUpperLimit(score) == score.isInt /\ score.v >= 0

isValidScore(score) == score.isInt /\ score.v >= 0 /\ score.v <= MAX_SCORE

isValidGameTime(time) == time.isInt /\ time.v >= 0 /\ time.v <= MAX_GAME_TIME

isValidLevel(level) == level.isInt /\ level.v >= 1 /\ level.v <= MAX_LEVEL

----------------------------------------------------------------------------
(* SupabaseDB *)

\* rows of the achievements table
Achievement(id, type, value) ==
    [id |-> id, condition_type |-> type, condition_value |-> value]

Catalog ==
    { Achievement("first_game", "total_games", 1),
      Achievement("speed_demon", "best_time", 30),
      Achievement("perfectionist", "best_time", 15),
      Achievement("veteran", "total_games", 10),
      Achievement("dedicated", "total_games", 50),
      Achievement("legend", "total_games", 100),
      Achievement("streak_master", "current_streak", 5),
      Achievement("unstoppable", "current_streak", 10),
      Achievement("high_scorer", "score", 500),
      Achievement("champion", "score", 1000),
      Achievement("time_master", "total_play_time", 3600),
      Achievement("early_bird", "created", 1) }

AchievementIds == {a.id : a \in Catalog}

\* verifyToken: the username a token decodes to, NoUser on error.  The
\* emergency fallback object rejects every token.
verifyToken(token, stub) ==
    IF ~stub /\ token \in Users THEN token ELSE NoUser

\* updatePlayerEnergy without Math.min(this.maxEnergy, ...)
updatePlayerEnergyResult_NoCap(user, t, energyChange) ==
    LET lastUpdate == user.last_energy_update
        minutesPassed == (t - lastUpdate) \div MS_PER_MINUTE
        energyToAdd == minutesPassed \div 5
        base == IF Falsy(user.energy) THEN INITIAL_ENERGY ELSE user.energy
        newEnergy == Max(0, base + energyToAdd + energyChange)
    IN  [energy |-> newEnergy,
         energyAdded |-> energyToAdd,
         nextEnergyIn |-> 5 - JsMod(minutesPassed, 5)]

\* updatePlayerEnergy without Math.max(0, ...)
updatePlayerEnergyResult_NoFloor(user, t, energyChange) ==
    LET lastUpdate == user.last_energy_update
        minutesPassed == (t - lastUpdate) \div MS_PER_MINUTE
        energyToAdd == minutesPassed \div 5
        base == IF Falsy(user.energy) THEN INITIAL_ENERGY ELSE user.energy
        newEnergy == Min(MAX_ENERGY, base + energyToAdd + energyChange)
    IN  [energy |-> newEnergy,
         energyAdded |-> energyToAdd,
         nextEnergyIn |-> 5 - JsMod(minutesPassed, 5)]

\* the regeneration part of updatePlayerEnergy and the value it returns
updatePlayerEnergyResult(user, t, energyChange) ==
    LET lastUpdate == user.last_energy_update
        minutesPassed == (t - lastUpdate) \div MS_PER_MINUTE
        energyToAdd == minutesPassed \div 5
        base == IF Falsy(user.energy) THEN INITIAL_ENERGY ELSE user.energy
        newEnergy == Max(0, Min(MAX_ENERGY, base + energyToAdd + energyChange))
    IN  [energy |-> newEnergy,
         energyAdded |-> energyToAdd,
         nextEnergyIn |-> 5 - JsMod(minutesPassed, 5)]

\* updatePlayerEnergy with an update that also writes the score column
updatePlayerEnergyRow_WritesScore(user, t, energyChange) ==
    [user EXCEPT !.energy = updatePlayerEnergyResult(user, t, energyChange).energy,
                 !.last_energy_update = t,
                 !.score = 0]

\* the row updatePlayerEnergy writes
updatePlayerEnergyRow(user, t, energyChange) ==
    [user EXCEPT !.energy = updatePlayerEnergyResult(user, t, energyChange).energy,
                 !.last_energy_update = t]

\* the row upsertPlayer writes
upsertPlayerRow(user, score, level) ==
    [user EXCEPT !.score = score, !.level = level]

\* the row SimpleDB.upsertPlayer leaves: score and level only ever rise
SimpleDB_upsertPlayer(user, score, level) ==
    [user EXCEPT !.score = IF score > @ THEN score ELSE @,
                 !.level = IF level > (IF Falsy(@) THEN 1 ELSE @)
                           THEN level ELSE @]

\* the row PostgreSQLDB.upsertPlayer(username, score) leaves: GREATEST of
\* the scores; the adapter takes no level
PostgreSQLDB_upsertPlayer(user, score, level) ==
    [user EXCEPT !.score = Max(@, score)]

\* the store adapters the server can be started with
Adapters == {"SimpleDB", "PostgreSQLDB", "SupabaseDB"}

\* upsertPlayer of an adapter, on an existing user's row
AdapterUpsert(a, user, score, level) ==
    CASE a = "SimpleDB" -> SimpleDB_upsertPlayer(user, score, level)
      [] a = "PostgreSQLDB" -> PostgreSQLDB_upsertPlayer(user, score, level)
      [] a = "SupabaseDB" -> upsertPlayerRow(user, score, level)

\* updateGameStats with a loss that leaves the running streak alone
updateGameStatsRow_LossKeepsStreak(user, gameTime, won) ==
    LET newCurrentStreak == IF won THEN user.current_streak + 1
                            ELSE user.current_streak
        newBestTime ==
            IF won /\ (Falsy(user.best_time) \/ gameTime < user.best_time)
            THEN gameTime ELSE user.best_time
    IN  [user EXCEPT !.total_games = user.total_games + 1,
                     !.total_play_time = user.total_play_time + gameTime,
                     !.current_streak = newCurrentStreak,
                     !.max_streak = Max(user.max_streak, newCurrentStreak),
                     !.best_time = newBestTime]

\* the row updateGameStats writes
updateGameStatsRow(user, gameTime, won) ==
    LET newCurrentStreak == IF won THEN user.current_streak + 1 ELSE 0
        newBestTime ==
            IF won /\ (Falsy(user.best_time) \/ gameTime < user.best_time)
            THEN gameTime ELSE user.best_time
    IN  [user EXCEPT !.total_games = user.total_games + 1,
                     !.total_play_time = user.total_play_time + gameTime,
                     !.current_streak = newCurrentStreak,
                     !.max_streak = Max(user.max_streak, newCurrentStreak),
                     !.best_time = newBestTime]

checkAchievementCondition(achievement, userStats) ==
    CASE achievement.condition_type = "total_games" ->
            userStats.total_games >= achievement.condition_value
      [] achievement.condition_type = "score" ->
            userStats.score >= achievement.condition_value
      [] achievement.condition_type = "best_time" ->
            ~Falsy(userStats.best_time)
            /\ userStats.best_time <= achievement.condition_value
      [] achievement.condition_type = "current_streak" ->
            userStats.current_streak >= achievement.condition_value
      [] achievement.condition_type = "total_play_time" ->
            userStats.total_play_time >= achievement.condition_value
      [] achievement.condition_type = "created" -> TRUE
      [] OTHER -> FALSE

\* checkAchievements: the ids it returns as newly unlocked
checkAchievementsNew(user, unlockedIds) ==
    {a.id : a \in {b \in Catalog : b.id \notin unlockedIds
                                   /\ checkAchievementCondition(b, user)}}

\* the leaderboard view: rows with score > 0 by score descending, the order
\* of equal scores being the database's choice; getLeaderboard limits it
RankedUsers(table) == {u \in Users : table[u].score > 0}

getLeaderboardResults(table, limit) ==
    LET ranked == RankedUsers(table)
        n == Cardinality(ranked)
        orders == {f \in [1..n -> ranked] :
                      /\ \A i, j \in 1..n : i # j => f[i] # f[j]
                      /\ \A i, j \in 1..n :
                            i < j => table[f[i]].score >= table[f[j]].score}
    IN  {[i \in 1..Min(n, limit) |->
             [username |-> f[i], score |-> table[f[i]].score,
              level |-> table[f[i]].level]] : f \in orders}

----------------------------------------------------------------------------
(* Initial state: the server has started on an existing users table, its    *)
(* database connection test is still running, and two clients have just     *)
(* connected                                                                *)

UserRow(score, level, energy, lastUpdate, games, playTime, streak, maxStreak, bestTime) ==
    [score |-> score, level |-> level, energy |-> energy,
     last_energy_update |-> lastUpdate, total_games |-> games,
     total_play_time |-> playTime, current_streak |-> streak,
     max_streak |-> maxStreak, best_time |-> bestTime]

\* a row as registerUser and the schema defaults leave it
FreshProfile ==
    [row |-> UserRow(0, 1, INITIAL_ENERGY, StartTime, 0, 0, 0, 0, Null),
     unlocked |-> {}]

\* a row of a player who has played: 9 games, 4 wins in a row, energy
\* nearly spent 12 minutes ago
SeasonedProfile ==
    [row |-> UserRow(200, 7, 5, StartTime - 12 * MS_PER_MINUTE, 9, 3570, 4, 4,
                     40),
     unlocked |-> {"first_game", "early_bird"}]

InitProfiles == [alice |-> SeasonedProfile, bob |-> FreshProfile]

\* a leaderboard list, with the time storage produced it
NoCache == [isNull |-> TRUE, list |-> <<>>, readAt |-> 0]
Cache(list) == [isNull |-> FALSE, list |-> list, readAt |-> now]

\* the record of one handler run: which handler, on which socket, whether
\* the socket was authenticated when it started, how many adapter calls
\* (db.*, verifyToken excluded) it made, the event names it emitted to
\* every socket (io.emit, socket.broadcast.emit) and to its own socket, the
\* branch it returned from, the achievement ids it sent as new, the
\* leaderboard list it emitted, and what updateLeaderboard did in it: the
\* cache duration it computed and whether it served the cache ("hit") or
\* queried storage ("ok", "failed")
Event(handler, s, outcome, dbCalls, toAll, toSocket, newAch, board) ==
    [handler |-> handler, socket |-> s,
     authed |-> IF s \in Sockets
                THEN currentUser[s] # NoUser /\ isAuthenticated[s] ELSE FALSE,
     user |-> IF s \in Sockets THEN currentUser[s] ELSE NoUser,
     outcome |-> outcome,
     dbCalls |-> dbCalls, toAll |-> toAll, toSocket |-> toSocket,
     newAchievements |-> newAch, board |-> board,
     data |-> NoData, fail |-> "none", refresh |-> "none", ttl |-> 0,
     start |-> 0, amount |-> NotInt]

\* the record of a 'use energy' run, with the amount it was sent
AmountEvent(e, amount) == [e EXCEPT !.amount = amount]

\* the record of a handler run that called updateLeaderboard: what became of
\* the call, the cache duration it computed and the time it captured
BoardEvent(e, lb) ==
    [e EXCEPT !.refresh = lb.refresh, !.ttl = lb.ttl, !.start = lb.start]

\* the record of a 'submit score' run, with its payload and the storage call
\* that failed in it
SubmitEvent(s, outcome, dbCalls, toAll, toSocket, newAch, board, data, fail) ==
    [Event("submit score", s, outcome, dbCalls, toAll, toSocket, newAch, board)
        EXCEPT !.data = data, !.fail = fail]

NoSocket == "none"

Init ==
    /\ now = StartTime
    /\ ticks = 0
    /\ events = 0
    /\ users = [u \in Users |-> InitProfiles[u].row]
    /\ user_achievements = [u \in Users |-> InitProfiles[u].unlocked]
    /\ dbConnectionHealthy = FALSE
    /\ dbStub = FALSE
    /\ connected = [s \in Sockets |-> TRUE]
    /\ currentUser = [s \in Sockets |-> NoUser]
    /\ isAuthenticated = [s \in Sockets |-> FALSE]
    /\ lastScoreSubmit = [s \in Sockets |-> 0]
    /\ lastMessages = [s \in Sockets |-> <<>>]
    /\ rateLimitViolations = [s \in Sockets |-> 0]
    /\ connectedUsers = [s \in Sockets |-> 0]
    /\ leaderboardCache = [s \in Sockets |-> NoCache]
    /\ lastLeaderboardUpdate = [s \in Sockets |-> 0]
    /\ pendingRefresh = [s \in Sockets |-> <<>>]
    /\ calls = <<>>
    /\ stores = [a \in Adapters |-> SeasonedProfile.row]
    /\ sweepQueue = <<>>
    /\ nextSweepAt = StartTime + 60000
    /\ lastAccepted = [u \in Users |-> 0]
    /\ announced = [u \in Users |-> {}]
    /\ chatLog = [s \in Sockets |-> <<>>]
    /\ connectedAt = [s \in Sockets |-> StartTime]
    /\ lastEvent = Event("start", NoSocket, "ok", 0, {}, {}, {}, NoCache)

----------------------------------------------------------------------------
(* Environment *)

\* the wall clock advances
Tick(d) ==
    /\ ticks < MaxTicks
    /\ now' = now + d
    /\ ticks' = ticks + 1
    /\ lastEvent' = Event("tick", NoSocket, "ok", 0, {}, {}, {}, NoCache)
    /\ UNCHANGED <<events, dbVars, initVars, flightVars, connected, authVars, lastScoreSubmit,
                   chatVars, cacheVars, sweepVars, ghostVars>>

\* one more socket event or sweep step is handled
Step ==
    /\ events < MaxEvents
    /\ events' = events + 1

\* initializeDatabase finishes: the connection test passed, or it failed and
\* db becomes the emergency fallback object
initializeDatabase(ok) ==
    /\ ~dbConnectionHealthy /\ ~dbStub
    /\ dbConnectionHealthy' = ok
    /\ dbStub' = ~ok
    /\ UNCHANGED stores
    /\ lastEvent' = Event("initializeDatabase", NoSocket,
                          IF ok THEN "ok" ELSE "storage error", 1, {}, {}, {},
                          NoCache)
    /\ UNCHANGED <<budgetVars, dbVars, flightVars, connected, authVars, lastScoreSubmit,
                   chatVars, cacheVars, sweepVars, ghostVars>>

\* io.on('connection'): a new socket and a new closure
Connection(s) ==
    /\ Step
    /\ ~connected[s]
    \* a slot is reused only when no running sweep still holds the old socket
    /\ \A i \in 1..Len(sweepQueue) : sweepQueue[i] # s
    \* nor any updateLeaderboard call of the old closure
    /\ pendingRefresh[s] = <<>>
    \* nor any suspended handler run of the old socket
    /\ \A i \in 1..Len(calls) : calls[i].socket # s
    /\ connected' = [connected EXCEPT ![s] = TRUE]
    /\ currentUser' = [currentUser EXCEPT ![s] = NoUser]
    /\ isAuthenticated' = [isAuthenticated EXCEPT ![s] = FALSE]
    /\ lastScoreSubmit' = [lastScoreSubmit EXCEPT ![s] = 0]
    /\ lastMessages' = [lastMessages EXCEPT ![s] = <<>>]
    /\ rateLimitViolations' = [rateLimitViolations EXCEPT ![s] = 0]
    /\ chatLog' = [chatLog EXCEPT ![s] = <<>>]
    /\ connectedUsers' = [connectedUsers EXCEPT ![s] = 0]
    /\ leaderboardCache' = [leaderboardCache EXCEPT ![s] = NoCache]
    /\ lastLeaderboardUpdate' = [lastLeaderboardUpdate EXCEPT ![s] = 0]
    /\ connectedAt' = [connectedAt EXCEPT ![s] = now]
    /\ lastEvent' = Event("connection", s, "ok", 0, {}, {}, {}, NoCache)
    /\ UNCHANGED <<clockVars, dbVars, initVars, flightVars, sweepVars,
                   lastAccepted, announced>>

----------------------------------------------------------------------------
(* Leaderboard cache of a connection *)

getLeaderboardCacheDuration(n) ==
    IF n > 10 THEN 15000 ELSE IF n > 5 THEN 30000 ELSE 60000

\* updateLeaderboard serving its cache however old it is
updateLeaderboard_NeverExpires(s, n, forceUpdate, ok, data) ==
    LET cacheDuration == getLeaderboardCacheDuration(n)
        hit == /\ ~forceUpdate
               /\ ~leaderboardCache[s].isNull
    IN  IF hit
        THEN [cache |-> leaderboardCache[s], last |-> lastLeaderboardUpdate[s],
              dbCalls |-> 0, board |-> leaderboardCache[s],
              refresh |-> "hit", ttl |-> cacheDuration, start |-> now]
        ELSE IF ~ok
        THEN [cache |-> leaderboardCache[s], last |-> lastLeaderboardUpdate[s],
              dbCalls |-> 1, board |-> leaderboardCache[s],
              refresh |-> "failed", ttl |-> cacheDuration, start |-> now]
        ELSE [cache |-> Cache(data), last |-> now,
              dbCalls |-> 1, board |-> Cache(data),
              refresh |-> "ok", ttl |-> cacheDuration, start |-> now]

\* updateLeaderboard emitting the error's empty list and dropping the cache
\* when db.getLeaderboard fails
updateLeaderboard_EmitsErrorResult(s, n, forceUpdate, ok, data) ==
    LET cacheDuration == getLeaderboardCacheDuration(n)
        hit == /\ ~forceUpdate
               /\ ~leaderboardCache[s].isNull
               /\ (now - lastLeaderboardUpdate[s]) < cacheDuration
    IN  IF hit
        THEN [cache |-> leaderboardCache[s], last |-> lastLeaderboardUpdate[s],
              dbCalls |-> 0, board |-> leaderboardCache[s],
              refresh |-> "hit", ttl |-> cacheDuration, start |-> now]
        ELSE IF ~ok
        THEN [cache |-> Cache(<<>>), last |-> now,
              dbCalls |-> 1, board |-> Cache(<<>>),
              refresh |-> "failed", ttl |-> cacheDuration, start |-> now]
        ELSE [cache |-> Cache(data), last |-> now,
              dbCalls |-> 1, board |-> Cache(data),
              refresh |-> "ok", ttl |-> cacheDuration, start |-> now]

\* updateLeaderboard on socket s whose closure counts n connected users:
\* the cache it leaves, the adapter calls it makes and the list it emits to
\* every socket (NoCache: nothing emitted).  ok and data are the outcome of
\* db.getLeaderboard(10).
updateLeaderboard(s, n, forceUpdate, ok, data) ==
    LET cacheDuration == getLeaderboardCacheDuration(n)
        hit == /\ ~forceUpdate
               /\ ~leaderboardCache[s].isNull
               /\ (now - lastLeaderboardUpdate[s]) < cacheDuration
    IN  IF hit
        THEN [cache |-> leaderboardCache[s], last |-> lastLeaderboardUpdate[s],
              dbCalls |-> 0, board |-> leaderboardCache[s],
              refresh |-> "hit", ttl |-> cacheDuration, start |-> now]
        ELSE IF ~ok
        THEN [cache |-> leaderboardCache[s], last |-> lastLeaderboardUpdate[s],
              dbCalls |-> 1, board |-> leaderboardCache[s],
              refresh |-> "failed", ttl |-> cacheDuration, start |-> now]
        ELSE [cache |-> Cache(data), last |-> now,
              dbCalls |-> 1, board |-> Cache(data),
              refresh |-> "ok", ttl |-> cacheDuration, start |-> now]

LeaderboardEmit(lb) == IF lb.board.isNull THEN {} ELSE {"update leaderboard"}

Authed(s) == currentUser[s] # NoUser /\ isAuthenticated[s]

----------------------------------------------------------------------------
(* Energy handlers *)

\* the game-cost test of 'use energy' left out
unauthorizedAmount_None(amount) == FALSE

\* the game-cost test of 'use energy'
unauthorizedAmount(amount) == amount # GAME_ENERGY_COST

\* socket.on('use energy'); ok: the adapter's select and update succeed
UseEnergy(s, amount, ok) ==
    /\ Step
    /\ connected[s]
    /\ IF ~Authed(s)
       THEN /\ lastEvent' = AmountEvent(Event("use energy", s, "unauthenticated", 0, {}, {},
                                  {}, NoCache), amount)
            /\ UNCHANGED users
       ELSE IF ~amount.isInt \/ amount.v <= 0 \/ amount.v > MAX_ENERGY_REQUEST
       THEN /\ lastEvent' = AmountEvent(Event("use energy", s, "invalid", 0, {}, {}, {},
                                  NoCache), amount)
            /\ UNCHANGED users
       ELSE IF unauthorizedAmount(amount.v)
       THEN /\ lastEvent' = AmountEvent(Event("use energy", s, "unauthorized amount", 0,
                                  {}, {}, {}, NoCache), amount)
            /\ UNCHANGED users
       ELSE IF dbStub
       THEN /\ lastEvent' = AmountEvent(Event("use energy", s, "storage error", 0, {}, {},
                                  {}, NoCache), amount)
            /\ UNCHANGED users
       ELSE IF ~ok
       THEN /\ lastEvent' = AmountEvent(Event("use energy", s, "storage error", 1, {}, {},
                                  {}, NoCache), amount)
            /\ UNCHANGED users
       ELSE LET u == currentUser[s]
                result == updatePlayerEnergyResult(users[u], now,
                                                   0 - amount.v)
            IN  /\ users' = [users EXCEPT
                                ![u] = updatePlayerEnergyRow(users[u], now,
                                                             0 - amount.v)]
                /\ lastEvent' =
                     AmountEvent(Event("use energy", s, "ok", 1, {},
                           {"sync energy"} \cup
                             (IF result.energy < GAME_ENERGY_COST
                              THEN {"energy error"} ELSE {}),
                           {}, NoCache), amount)
    /\ UNCHANGED <<clockVars, user_achievements, initVars, flightVars, connected,
                   authVars, lastScoreSubmit, chatVars, cacheVars, sweepVars,
                   ghostVars>>

\* socket.on('check energy')
CheckEnergy(s, ok) ==
    /\ Step
    /\ connected[s]
    /\ IF ~Authed(s)
       THEN /\ lastEvent' = Event("check energy", s, "unauthenticated", 0, {},
                                  {}, {}, NoCache)
            /\ UNCHANGED users
       ELSE IF dbStub
       THEN /\ lastEvent' = Event("check energy", s, "storage error", 0, {},
                                  {}, {}, NoCache)
            /\ UNCHANGED users
       ELSE IF ~ok
       THEN /\ lastEvent' = Event("check energy", s, "storage error", 1, {},
                                  {}, {}, NoCache)
            /\ UNCHANGED users
       ELSE LET u == currentUser[s]
            IN  /\ users' = [users EXCEPT
                                ![u] = updatePlayerEnergyRow(users[u], now, 0)]
                /\ lastEvent' = Event("check energy", s, "ok", 1, {},
                                      {"sync energy"}, {}, NoCache)
    /\ UNCHANGED <<clockVars, user_achievements, initVars, flightVars, connected,
                   authVars, lastScoreSubmit, chatVars, cacheVars, sweepVars,
                   ghostVars>>

\* socket.on('request user sync'); fail names the storage call that fails,
\* if any: db.findPlayer or db.getPlayerEnergy
SyncFailures == {"none", "find", "energy"}

RequestUserSync(s, token, fail) ==
    /\ Step
    /\ connected[s]
    /\ LET decoded == verifyToken(token, dbStub)
           okFind == fail # "find"
           okEnergy == fail # "energy"
       IN  IF token = NoToken
           THEN /\ lastEvent' = Event("request user sync", s, "no token", 0,
                                      {}, {}, {}, NoCache)
                /\ UNCHANGED users
           ELSE IF decoded = NoUser
           THEN /\ lastEvent' = Event("request user sync", s, "invalid token",
                                      0, {}, {}, {}, NoCache)
                /\ UNCHANGED users
           ELSE IF ~okFind
           THEN /\ lastEvent' = Event("request user sync", s, "storage error",
                                      1, {}, {}, {}, NoCache)
                /\ UNCHANGED users
           ELSE IF ~okEnergy
           THEN /\ lastEvent' = Event("request user sync", s, "storage error",
                                      2, {}, {"sync score", "sync level"}, {},
                                      NoCache)
                /\ UNCHANGED users
           ELSE /\ users' = [users EXCEPT
                                ![decoded] = updatePlayerEnergyRow(
                                                 users[decoded], now, 0)]
                /\ lastEvent' = Event("request user sync", s, "ok", 2, {},
                                      {"sync score", "sync level",
                                       "sync energy"}, {}, NoCache)
    /\ UNCHANGED <<clockVars, user_achievements, initVars, flightVars, connected,
                   authVars, lastScoreSubmit, chatVars, cacheVars, sweepVars,
                   ghostVars>>

----------------------------------------------------------------------------
(* Energy regeneration sweep *)

\* the interval fires: io.fetchSockets() lists the open sockets; the model
\* follows one sweep at a time, so the next one starts once the loop of the
\* last one has ended
SweepStart(order) ==
    /\ Step
    /\ now >= nextSweepAt
    /\ sweepQueue = <<>>
    /\ \A i \in 1..Len(calls) : calls[i].kind # "sweep visit"
    /\ sweepQueue' = order
    /\ nextSweepAt' = now + 60000
    /\ lastEvent' = Event("sweep", NoSocket, "ok", 0, {}, {}, {}, NoCache)
    /\ UNCHANGED <<clockVars, dbVars, initVars, flightVars, connected, authVars,
                   lastScoreSubmit, chatVars, cacheVars, ghostVars>>

\* the orders in which fetchSockets can list the open sockets
SocketOrders ==
    LET open == {s \in Sockets : connected[s]}
        n == Cardinality(open)
    IN  {f \in [1..n -> open] : \A i, j \in 1..n : i # j => f[i] # f[j]}

\* one iteration of the sweep's loop
SweepStep(ok) ==
    /\ Step
    /\ sweepQueue # <<>>
    /\ sweepQueue' = Tail(sweepQueue)
    /\ LET s == Head(sweepQueue)
           u == currentUser[s]
       IN  IF ~Authed(s)
           THEN /\ lastEvent' = Event("sweep visit", s, "unauthenticated", 0,
                                      {}, {}, {}, NoCache)
                /\ UNCHANGED users
           ELSE IF dbStub
           THEN /\ lastEvent' = Event("sweep visit", s, "storage error", 0,
                                      {}, {}, {}, NoCache)
                /\ UNCHANGED users
           ELSE IF ~ok
           THEN /\ lastEvent' = Event("sweep visit", s, "storage error", 1,
                                      {}, {}, {}, NoCache)
                /\ UNCHANGED users
           ELSE LET result == updatePlayerEnergyResult(users[u], now, 0)
                IN  /\ users' = [users EXCEPT
                                   ![u] = updatePlayerEnergyRow(users[u], now,
                                                                0)]
                    /\ lastEvent' =
                         IF result.energyAdded > 0
                         THEN Event("sweep visit", s, "ok", 2, {},
                                    {"sync energy", "chat message"}, {},
                                    NoCache)
                         ELSE Event("sweep visit", s, "ok", 1, {}, {}, {},
                                    NoCache)
    /\ UNCHANGED <<clockVars, user_achievements, initVars, flightVars, connected,
                   authVars, lastScoreSubmit, chatVars, cacheVars,
                   nextSweepAt, ghostVars>>

----------------------------------------------------------------------------
(* Session handlers *)

\* socket.on('join game') and finalizeJoin, which it calls.  fail names the
\* storage call that fails, if any: db.findPlayer, db.getPlayerEnergy or
\* db.getLeaderboard
JoinFailures == {"none", "find", "energy", "board"}

JoinGame(s, token, fail) ==
    /\ Step
    /\ connected[s]
    /\ LET decoded == verifyToken(token, dbStub)
           okFind == fail # "find"
           okEnergy == fail # "energy"
           okBoard == fail # "board"
       IN  IF token = NoToken \/ decoded = NoUser
           THEN /\ lastEvent' = Event("join game", s,
                                      IF token = NoToken THEN "no token"
                                      ELSE "invalid token",
                                      0, {}, {"auth_error"}, {}, NoCache)
                /\ UNCHANGED <<users, authVars, cacheVars>>
           ELSE /\ connectedUsers[s] < MaxJoins
                /\ currentUser' = [currentUser EXCEPT ![s] = decoded]
                /\ isAuthenticated' = [isAuthenticated EXCEPT ![s] = TRUE]
                /\ connectedUsers' = [connectedUsers EXCEPT ![s] = @ + 1]
                /\ IF ~dbConnectionHealthy
                   THEN /\ lastEvent' = Event("join game", s, "database down",
                                              0, {}, {"auth_error"}, {},
                                              NoCache)
                        /\ UNCHANGED <<users, cacheVars>>
                   ELSE IF ~okFind
                   THEN /\ lastEvent' = Event("join game", s, "storage error",
                                              3, {"chat message"},
                                              {"chat message", "auth_error"},
                                              {}, NoCache)
                        /\ UNCHANGED <<users, cacheVars>>
                   ELSE
                     LET row == IF okEnergy
                                THEN updatePlayerEnergyRow(users[decoded],
                                                           now, 0)
                                ELSE users[decoded]
                         table == [users EXCEPT ![decoded] = row]
                     IN  \E data \in getLeaderboardResults(table,
                                                          LEADERBOARD_LIMIT) :
                           LET lb == updateLeaderboard(s, connectedUsers[s] + 1,
                                                       FALSE, okBoard, data)
                           IN  /\ users' = table
                               /\ leaderboardCache' =
                                    [leaderboardCache EXCEPT ![s] = lb.cache]
                               /\ lastLeaderboardUpdate' =
                                    [lastLeaderboardUpdate EXCEPT
                                        ![s] = lb.last]
                               /\ lastEvent' = BoardEvent(
                                    Event("join game", s, "ok",
                                          4 + lb.dbCalls,
                                          {"chat message"} \cup
                                            LeaderboardEmit(lb),
                                          {"chat message", "sync score",
                                           "sync level", "sync energy"},
                                          {}, lb.board), lb)
    /\ UNCHANGED <<clockVars, user_achievements, initVars, flightVars, connected,
                   lastScoreSubmit, chatVars, sweepVars, ghostVars>>

\* socket.on('disconnect'), after which the socket is gone
Disconnect(s) ==
    /\ Step
    /\ connected[s]
    /\ connected' = [connected EXCEPT ![s] = FALSE]
    /\ IF currentUser[s] # NoUser
       THEN /\ connectedUsers' =
                 [connectedUsers EXCEPT ![s] = Max(0, @ - 1)]
            /\ lastMessages' = [lastMessages EXCEPT ![s] = <<>>]
            /\ currentUser' = [currentUser EXCEPT ![s] = NoUser]
            /\ isAuthenticated' = [isAuthenticated EXCEPT ![s] = FALSE]
       ELSE UNCHANGED <<authVars, lastMessages>>
    /\ lastEvent' = Event("disconnect", s, "ok", 0, {}, {}, {}, NoCache)
    /\ UNCHANGED <<clockVars, dbVars, initVars, flightVars, lastScoreSubmit,
                   rateLimitViolations, chatLog, cacheVars, sweepVars,
                   ghostVars>>

\* the 'disconnect' listener run once more on a socket that is already gone,
\* as when the transport reports both an error and a close
DisconnectAgain(s) ==
    /\ Step
    /\ ~connected[s]
    /\ IF currentUser[s] # NoUser
       THEN /\ connectedUsers' =
                 [connectedUsers EXCEPT ![s] = Max(0, @ - 1)]
            /\ lastMessages' = [lastMessages EXCEPT ![s] = <<>>]
            /\ currentUser' = [currentUser EXCEPT ![s] = NoUser]
            /\ isAuthenticated' = [isAuthenticated EXCEPT ![s] = FALSE]
       ELSE UNCHANGED <<authVars, lastMessages>>
    /\ lastEvent' = Event("disconnect", s, "again", 0, {}, {}, {}, NoCache)
    /\ UNCHANGED <<clockVars, dbVars, initVars, flightVars, connected,
                   lastScoreSubmit, rateLimitViolations, chatLog, cacheVars,
                   sweepVars, ghostVars>>

\* the rate limit test of 'chat message' with > for >=
chatRateLimited_OffByOne(messageCount, maxMessages) ==
    messageCount > maxMessages

\* the rate limit test of 'chat message'
chatRateLimited(messageCount, maxMessages) == messageCount >= maxMessages

\* socket.on('chat message')
ChatMessage(s, msg) ==
    /\ Step
    /\ connected[s]
    /\ IF ~Authed(s)
       THEN /\ lastEvent' = Event("chat message", s, "unauthenticated", 0, {},
                                  {}, {}, NoCache)
            /\ UNCHANGED chatVars
       ELSE IF ~msg.isString \/ msg.cleanLength = 0 \/ msg.cleanLength > 500
       THEN /\ lastEvent' = Event("chat message", s, "invalid", 0, {}, {}, {},
                                  NoCache)
            /\ UNCHANGED chatVars
       ELSE
         LET recent == SelectSeq(lastMessages[s],
                                 LAMBDA time : now - time < 10000)
             messageCount == Len(recent)
             maxMessages == IF rateLimitViolations[s] > 3 THEN 3 ELSE 5
         IN  IF chatRateLimited(messageCount, maxMessages)
             THEN /\ rateLimitViolations[s] < MaxViolations
                  /\ lastMessages' = [lastMessages EXCEPT ![s] = recent]
                  /\ UNCHANGED chatLog
                  /\ rateLimitViolations' =
                       [rateLimitViolations EXCEPT ![s] = @ + 1]
                  /\ lastEvent' = Event("chat message", s, "rate limited", 0,
                                        {}, {"chat message"}, {}, NoCache)
             ELSE /\ lastMessages' =
                       [lastMessages EXCEPT ![s] = Append(recent, now)]
                  /\ chatLog' = [chatLog EXCEPT ![s] = Append(@, now)]
                  /\ rateLimitViolations' =
                       [rateLimitViolations EXCEPT
                          ![s] = IF messageCount = 0 /\ @ > 0
                                 THEN Max(0, @ - 1) ELSE @]
                  /\ lastEvent' = Event("chat message", s, "ok", 1,
                                        {"chat message"}, {}, {}, NoCache)
    /\ UNCHANGED <<clockVars, dbVars, initVars, flightVars, connected, authVars,
                   lastScoreSubmit, cacheVars, sweepVars, ghostVars>>

\* socket.on('request leaderboard update')
RequestLeaderboardUpdate(s, okBoard) ==
    /\ Step
    /\ connected[s]
    /\ IF ~Authed(s)
       THEN /\ lastEvent' = Event("request leaderboard update", s,
                                  "unauthenticated", 0, {}, {}, {}, NoCache)
            /\ UNCHANGED cacheVars
       ELSE \E data \in getLeaderboardResults(users, LEADERBOARD_LIMIT) :
              LET lb == updateLeaderboard(s, connectedUsers[s], TRUE,
                                          okBoard /\ ~dbStub, data)
              IN  /\ leaderboardCache' =
                       [leaderboardCache EXCEPT ![s] = lb.cache]
                  /\ lastLeaderboardUpdate' =
                       [lastLeaderboardUpdate EXCEPT ![s] = lb.last]
                  /\ lastEvent' = BoardEvent(
                       Event("request leaderboard update", s,
                             IF okBoard /\ ~dbStub THEN "ok"
                             ELSE "storage error",
                             lb.dbCalls, LeaderboardEmit(lb), {}, {},
                             lb.board), lb)
    /\ UNCHANGED <<clockVars, dbVars, initVars, flightVars, connected, authVars,
                   lastScoreSubmit, chatVars, sweepVars, ghostVars>>

----------------------------------------------------------------------------
(* Score submission *)

\* the anti-cheat condition of 'submit score'
scoreIsSuspicious(score, level) ==
    score > level * SCORE_PER_LEVEL + SCORE_BUFFER

\* the handler leaves after the anti-cheat warning: as in the older server
antiCheatReturns_Blocking(score, level) == scoreIsSuspicious(score, level)

\* the handler leaves after the anti-cheat warning: never, the return that
\* follows the warning is commented out
antiCheatReturns(score, level) == FALSE

\* the submission passed every gate and reached the storage calls
Committed(e) == e.handler = "submit score" /\ e.outcome = "ok"

\* socket.on('submit score').  fail names the storage call that fails, if
\* any: db.upsertPlayer, the queries of updateGameStats, the queries of
\* checkAchievements, the inserts of unlockAchievement or db.getLeaderboard
SubmitFailures == {"none", "upsert", "stats", "achievements", "unlock",
                   "board"}

SubmitScoreOn(s, score, level, gameTime, won, fail) ==
    /\ Step
    /\ connected[s]
    /\ LET data == Data(score, level, gameTime, won)
           Rejected(outcome) ==
               /\ lastEvent' = SubmitEvent(s, outcome, 0, {}, {}, {}, NoCache,
                                           data, "none")
               /\ UNCHANGED <<dbVars, lastScoreSubmit, cacheVars, ghostVars>>
       IN
       IF ~Authed(s)
       THEN Rejected("unauthenticated")
       ELSE IF \/ ~isValidScore(score)
               \/ ~isValidGameTime(gameTime)
               \/ ~won.isBool
               \/ ~isValidLevel(level)
       THEN Rejected("invalid")
       ELSE IF antiCheatReturns(score.v, level.v)
       THEN Rejected("suspicious")
       ELSE IF /\ lastScoreSubmit[s] # 0
               /\ now - lastScoreSubmit[s] < SCORE_SUBMIT_GAP
       THEN Rejected("rate limited")
       ELSE IF dbStub
       THEN /\ lastScoreSubmit' = [lastScoreSubmit EXCEPT ![s] = now]
            /\ lastEvent' = SubmitEvent(s, "storage error", 0, {}, {}, {},
                                        NoCache, data, "none")
            /\ UNCHANGED <<dbVars, cacheVars, ghostVars>>
       ELSE
           LET u == currentUser[s]
               okUpsert == fail # "upsert"
               okStats == fail # "stats"
               okAch == fail # "achievements"
               okBoard == fail # "board"
               failed == IF fail = "unlock" THEN AchievementIds ELSE {}
               row1 == IF okUpsert
                       THEN upsertPlayerRow(users[u], score.v, level.v)
                       ELSE users[u]
               row2 == IF okStats
                       THEN updateGameStatsRow(row1, gameTime.v, won.v)
                       ELSE row1
               new == IF okStats /\ okAch
                      THEN checkAchievementsNew(row2, user_achievements[u])
                      ELSE {}
               table == [users EXCEPT ![u] = row2]
           IN  /\ users[u].total_games < MaxGames
               /\ lastScoreSubmit' = [lastScoreSubmit EXCEPT ![s] = now]
               /\ users' = table
               /\ user_achievements' =
                     [user_achievements EXCEPT ![u] = @ \cup (new \ failed)]
               /\ lastAccepted' = [lastAccepted EXCEPT ![u] = now]
               /\ announced' = [announced EXCEPT ![u] = @ \cup new]
               /\ UNCHANGED connectedAt
               /\ \E board \in getLeaderboardResults(table, LEADERBOARD_LIMIT) :
                     LET lb == updateLeaderboard(s, connectedUsers[s], TRUE,
                                                 okBoard, board)
                     IN  /\ leaderboardCache' =
                              [leaderboardCache EXCEPT ![s] = lb.cache]
                         /\ lastLeaderboardUpdate' =
                              [lastLeaderboardUpdate EXCEPT ![s] = lb.last]
                         /\ lastEvent' = BoardEvent(
                              SubmitEvent(s, "ok", 2 + lb.dbCalls,
                                          LeaderboardEmit(lb),
                                          IF new # {}
                                          THEN {"new achievements"} ELSE {},
                                          new, lb.board, data, fail), lb)
    /\ UNCHANGED <<clockVars, initVars, flightVars, connected, authVars, chatVars,
                   sweepVars>>

\* the handler destructures its payload
SubmitScore(s, data, fail) ==
    SubmitScoreOn(s, data.score, data.level, data.gameTime, data.won, fail)

----------------------------------------------------------------------------
(* 'request leaderboard update' across the await in updateLeaderboard: the  *)
(* handler captures the time and sends the query, storage answers, and the  *)
(* handler resumes.  Other handlers run in between, and the answers of two  *)
(* calls may come back in either order.                                     *)

\* the handler runs up to await db.getLeaderboard(10)
RefreshBegin(s) ==
    /\ Step
    /\ connected[s]
    /\ Authed(s)
    /\ Len(pendingRefresh[s]) < MaxPending
    /\ pendingRefresh' =
          [pendingRefresh EXCEPT
              ![s] = Append(@, [start |-> now,
                                ttl |-> getLeaderboardCacheDuration(
                                            connectedUsers[s]),
                                phase |-> "sent",
                                result |-> NoCache])]
    /\ lastEvent' = Event("request leaderboard update", s, "awaiting storage",
                          1, {}, {}, {}, NoCache)
    /\ UNCHANGED <<clockVars, dbVars, initVars, calls, connected, authVars,
                   lastScoreSubmit, chatVars, cacheVars, sweepVars, ghostVars>>

\* storage evaluates the query of the i-th waiting call
RefreshRead(s, i, ok) ==
    /\ i \in 1..Len(pendingRefresh[s])
    /\ pendingRefresh[s][i].phase = "sent"
    /\ \E data \in getLeaderboardResults(users, LEADERBOARD_LIMIT) :
          pendingRefresh' =
             [pendingRefresh EXCEPT
                 ![s][i] = IF ok /\ ~dbStub
                           THEN [@ EXCEPT !.phase = "answered",
                                          !.result = Cache(data)]
                           ELSE [@ EXCEPT !.phase = "failed"]]
    /\ lastEvent' = Event("getLeaderboard", NoSocket,
                          IF ok /\ ~dbStub THEN "ok" ELSE "storage error",
                          0, {}, {}, {}, NoCache)
    /\ UNCHANGED <<budgetVars, dbVars, initVars, calls, connected, authVars,
                   lastScoreSubmit, chatVars, cacheVars, sweepVars, ghostVars>>

\* the i-th waiting call resumes with its answer
RefreshEnd(s, i) ==
    /\ i \in 1..Len(pendingRefresh[s])
    /\ pendingRefresh[s][i].phase # "sent"
    /\ LET p == pendingRefresh[s][i]
           rest == [j \in 1..(Len(pendingRefresh[s]) - 1) |->
                       IF j < i THEN pendingRefresh[s][j]
                       ELSE pendingRefresh[s][j + 1]]
           invoked(e) == [e EXCEPT !.authed = TRUE]
       IN  /\ pendingRefresh' = [pendingRefresh EXCEPT ![s] = rest]
           /\ IF p.phase = "answered"
              THEN /\ leaderboardCache' =
                        [leaderboardCache EXCEPT ![s] = p.result]
                   /\ lastLeaderboardUpdate' =
                        [lastLeaderboardUpdate EXCEPT ![s] = p.start]
                   /\ lastEvent' = invoked(BoardEvent(
                        Event("request leaderboard update", s, "ok", 0,
                              {"update leaderboard"}, {}, {}, p.result),
                        [refresh |-> "ok", ttl |-> p.ttl, start |-> p.start]))
              ELSE /\ UNCHANGED <<leaderboardCache, lastLeaderboardUpdate>>
                   /\ lastEvent' = invoked(BoardEvent(
                        Event("request leaderboard update", s,
                              "storage error", 0,
                              IF leaderboardCache[s].isNull THEN {}
                              ELSE {"update leaderboard"},
                              {}, {}, leaderboardCache[s]),
                        [refresh |-> "failed", ttl |-> p.ttl,
                         start |-> p.start]))
    /\ UNCHANGED <<budgetVars, dbVars, initVars, calls, connected, authVars,
                   lastScoreSubmit, chatVars, sweepVars, ghostVars>>

----------------------------------------------------------------------------
(* The energy handlers across the two awaits of db.updatePlayerEnergy: the   *)
(* caller sends the select and is suspended; storage answers, the adapter    *)
(* takes the time, computes the new amount and sends the update; the update  *)
(* lands and the caller resumes.  Other handlers run in between.             *)

\* a caller suspended in db.updatePlayerEnergy(user, change)
EnergyCall(kind, s, change) ==
    [kind |-> kind, socket |-> s, user |-> currentUser[s], change |-> change,
     phase |-> "select", row |-> users[currentUser[s]], t |-> 0, energy |-> 0,
     added |-> 0, data |-> NoData]

\* calls without its i-th entry
WithoutCall(i) ==
    [j \in 1..(Len(calls) - 1) |-> IF j < i THEN calls[j] ELSE calls[j + 1]]

\* socket.on('use energy') up to its await
UseEnergyBegin(s, amount) ==
    /\ Step
    /\ connected[s]
    /\ IF ~Authed(s)
       THEN /\ lastEvent' = AmountEvent(Event("use energy", s,
                                              "unauthenticated", 0, {}, {},
                                              {}, NoCache), amount)
            /\ UNCHANGED calls
       ELSE IF ~amount.isInt \/ amount.v <= 0 \/ amount.v > MAX_ENERGY_REQUEST
       THEN /\ lastEvent' = AmountEvent(Event("use energy", s, "invalid", 0,
                                              {}, {}, {}, NoCache), amount)
            /\ UNCHANGED calls
       ELSE IF unauthorizedAmount(amount.v)
       THEN /\ lastEvent' = AmountEvent(Event("use energy", s,
                                              "unauthorized amount", 0, {},
                                              {}, {}, NoCache), amount)
            /\ UNCHANGED calls
       ELSE IF dbStub
       THEN /\ lastEvent' = AmountEvent(Event("use energy", s,
                                              "storage error", 0, {}, {}, {},
                                              NoCache), amount)
            /\ UNCHANGED calls
       ELSE /\ Len(calls) < MaxCalls
            /\ calls' = Append(calls, EnergyCall("use energy", s,
                                                 0 - amount.v))
            /\ lastEvent' = AmountEvent(Event("use energy", s,
                                              "awaiting storage", 1, {}, {},
                                              {}, NoCache), amount)
    /\ UNCHANGED <<clockVars, dbVars, initVars, pendingRefresh, connected,
                   authVars, lastScoreSubmit, chatVars, cacheVars, sweepVars,
                   ghostVars>>

\* socket.on('check energy') up to its await
CheckEnergyBegin(s) ==
    /\ Step
    /\ connected[s]
    /\ IF ~Authed(s)
       THEN /\ lastEvent' = Event("check energy", s, "unauthenticated", 0, {},
                                  {}, {}, NoCache)
            /\ UNCHANGED calls
       ELSE IF dbStub
       THEN /\ lastEvent' = Event("check energy", s, "storage error", 0, {},
                                  {}, {}, NoCache)
            /\ UNCHANGED calls
       ELSE /\ Len(calls) < MaxCalls
            /\ calls' = Append(calls, EnergyCall("check energy", s, 0))
            /\ lastEvent' = Event("check energy", s, "awaiting storage", 1,
                                  {}, {}, {}, NoCache)
    /\ UNCHANGED <<clockVars, dbVars, initVars, pendingRefresh, connected,
                   authVars, lastScoreSubmit, chatVars, cacheVars, sweepVars,
                   ghostVars>>

\* the sweep is suspended in the visit of one socket
SweepSuspended == \E i \in 1..Len(calls) : calls[i].kind = "sweep visit"

\* the sweep's loop takes the next socket, up to its await
SweepVisitBegin ==
    /\ Step
    /\ sweepQueue # <<>>
    /\ ~SweepSuspended
    /\ sweepQueue' = Tail(sweepQueue)
    /\ LET s == Head(sweepQueue)
       IN  IF ~Authed(s)
           THEN /\ lastEvent' = Event("sweep visit", s, "unauthenticated", 0,
                                      {}, {}, {}, NoCache)
                /\ UNCHANGED calls
           ELSE IF dbStub
           THEN /\ lastEvent' = Event("sweep visit", s, "storage error", 0,
                                      {}, {}, {}, NoCache)
                /\ UNCHANGED calls
           ELSE /\ Len(calls) < MaxCalls
                /\ calls' = Append(calls, EnergyCall("sweep visit", s, 0))
                /\ lastEvent' = Event("sweep visit", s, "awaiting storage", 1,
                                      {}, {}, {}, NoCache)
    /\ UNCHANGED <<clockVars, dbVars, initVars, pendingRefresh, connected,
                   authVars, lastScoreSubmit, chatVars, cacheVars,
                   nextSweepAt, ghostVars>>

\* storage answers the select of the i-th call; on a row the adapter takes
\* the time, computes the amount and sends the update; on an error it
\* returns and the caller resumes with no data
EnergySelect(i, ok) ==
    /\ i \in 1..Len(calls)
    /\ calls[i].phase = "select"
    /\ LET c == calls[i]
           result == updatePlayerEnergyResult(users[c.user], now, c.change)
       IN  IF ok
           THEN /\ calls' = [calls EXCEPT
                               ![i] = [c EXCEPT !.phase = "update",
                                                !.row = users[c.user],
                                                !.t = now,
                                                !.energy = result.energy,
                                                !.added = result.energyAdded]]
                /\ lastEvent' = Event(c.kind, c.socket, "update sent", 1, {},
                                      {}, {}, NoCache)
           ELSE /\ calls' = WithoutCall(i)
                /\ lastEvent' = Event(c.kind, c.socket, "storage error", 0,
                                      {}, {}, {}, NoCache)
    /\ UNCHANGED <<budgetVars, dbVars, initVars, pendingRefresh, connected,
                   authVars, lastScoreSubmit, chatVars, cacheVars, sweepVars,
                   ghostVars>>

\* what the caller of the i-th call emits to its socket once it has data
energyEmits(c) ==
    CASE c.kind = "use energy" ->
            {"sync energy"} \cup (IF c.energy < GAME_ENERGY_COST
                                  THEN {"energy error"} ELSE {})
      [] c.kind = "check energy" -> {"sync energy"}
      [] OTHER -> IF c.added > 0 THEN {"sync energy", "chat message"} ELSE {}

\* the update of the i-th call lands (or fails) and its caller resumes; the
\* sweep saves its chat message when it has added energy
EnergyFinish(i, ok) ==
    /\ i \in 1..Len(calls)
    /\ calls[i].phase = "update"
    /\ calls[i].kind \in {"use energy", "check energy", "sweep visit"}
    /\ calls' = WithoutCall(i)
    /\ LET c == calls[i]
       IN  IF ok
           THEN /\ users' = [users EXCEPT
                               ![c.user] = [@ EXCEPT
                                              !.energy = c.energy,
                                              !.last_energy_update = c.t]]
                /\ lastEvent' =
                     Event(c.kind, c.socket, "ok",
                           IF c.kind = "sweep visit" /\ c.added > 0
                           THEN 1 ELSE 0,
                           {}, energyEmits(c), {}, NoCache)
           ELSE /\ UNCHANGED users
                /\ lastEvent' = Event(c.kind, c.socket, "storage error", 0,
                                      {}, {}, {}, NoCache)
    /\ UNCHANGED <<budgetVars, user_achievements, initVars, pendingRefresh,
                   connected, authVars, lastScoreSubmit, chatVars, cacheVars,
                   sweepVars, ghostVars>>

\* a 'submit score' run suspended on db.upsertPlayer
ScoreCall(s, data) ==
    [EnergyCall("submit score", s, 0) EXCEPT !.phase = "upsert",
                                             !.data = data]

\* socket.on('submit score') up to its first await
SubmitScoreBegin(s, data) ==
    /\ Step
    /\ connected[s]
    /\ LET Rejected(outcome) ==
               /\ lastEvent' = SubmitEvent(s, outcome, 0, {}, {}, {}, NoCache,
                                           data, "none")
               /\ UNCHANGED <<calls, lastScoreSubmit, lastAccepted>>
       IN
       IF ~Authed(s)
       THEN Rejected("unauthenticated")
       ELSE IF \/ ~isValidScore(data.score)
               \/ ~isValidGameTime(data.gameTime)
               \/ ~data.won.isBool
               \/ ~isValidLevel(data.level)
       THEN Rejected("invalid")
       ELSE IF antiCheatReturns(data.score.v, data.level.v)
       THEN Rejected("suspicious")
       ELSE IF /\ lastScoreSubmit[s] # 0
               /\ now - lastScoreSubmit[s] < SCORE_SUBMIT_GAP
       THEN Rejected("rate limited")
       ELSE IF dbStub
       THEN /\ lastScoreSubmit' = [lastScoreSubmit EXCEPT ![s] = now]
            /\ lastEvent' = SubmitEvent(s, "storage error", 0, {}, {}, {},
                                        NoCache, data, "none")
            /\ UNCHANGED <<calls, lastAccepted>>
       ELSE /\ Len(calls) < MaxCalls
            /\ users[currentUser[s]].total_games + Len(calls) < MaxGames
            /\ lastScoreSubmit' = [lastScoreSubmit EXCEPT ![s] = now]
            /\ calls' = Append(calls, ScoreCall(s, data))
            /\ lastAccepted' = [lastAccepted EXCEPT ![currentUser[s]] = now]
            /\ lastEvent' = SubmitEvent(s, "awaiting storage", 1, {}, {}, {},
                                        NoCache, data, "none")
    /\ UNCHANGED <<clockVars, dbVars, initVars, pendingRefresh, connected,
                   authVars, chatVars, cacheVars, sweepVars, announced,
                   connectedAt>>

\* db.upsertPlayer has written score and level, and storage answers the
\* select of updateGameStats: the run holds the row it read and sends the
\* update
StatsSelect(i) ==
    /\ i \in 1..Len(calls)
    /\ calls[i].phase = "upsert"
    /\ LET c == calls[i]
           row == upsertPlayerRow(users[c.user], c.data.score.v,
                                  c.data.level.v)
       IN  /\ users' = [users EXCEPT ![c.user] = row]
           /\ calls' = [calls EXCEPT ![i] = [c EXCEPT !.phase = "stats",
                                                      !.row = row,
                                                      !.t = now]]
           /\ lastEvent' = SubmitEvent(c.socket, "update sent", 3, {}, {}, {},
                                       NoCache, c.data, "none")
    /\ UNCHANGED <<budgetVars, user_achievements, initVars, pendingRefresh,
                   connected, authVars, lastScoreSubmit, chatVars, cacheVars,
                   sweepVars, ghostVars>>

\* the columns the update of updateGameStats writes, computed from the row
\* its select read, on the row as it is stored now
statsWrite(cur, read, gameTime, won) ==
    LET r == updateGameStatsRow(read, gameTime, won)
    IN  [cur EXCEPT !.total_games = r.total_games,
                    !.total_play_time = r.total_play_time,
                    !.current_streak = r.current_streak,
                    !.max_streak = r.max_streak,
                    !.best_time = r.best_time]

\* the update of updateGameStats lands; checkAchievements, the handler's
\* emit and updateLeaderboard(true) follow
StatsFinish(i) ==
    /\ i \in 1..Len(calls)
    /\ calls[i].phase = "stats"
    /\ calls' = WithoutCall(i)
    /\ LET c == calls[i]
           s == c.socket
           u == c.user
           row == statsWrite(users[u], c.row, c.data.gameTime.v, c.data.won.v)
           new == checkAchievementsNew(row, user_achievements[u])
           table == [users EXCEPT ![u] = row]
       IN  /\ users' = table
           /\ user_achievements' = [user_achievements EXCEPT ![u] = @ \cup new]
           /\ announced' = [announced EXCEPT ![u] = @ \cup new]
           /\ \E board \in getLeaderboardResults(table, LEADERBOARD_LIMIT) :
                 LET lb == updateLeaderboard(s, connectedUsers[s], TRUE, TRUE,
                                             board)
                 IN  /\ leaderboardCache' =
                          [leaderboardCache EXCEPT ![s] = lb.cache]
                     /\ lastLeaderboardUpdate' =
                          [lastLeaderboardUpdate EXCEPT ![s] = lb.last]
                     /\ lastEvent' = BoardEvent(
                          SubmitEvent(s, "ok", 1 + lb.dbCalls,
                                      LeaderboardEmit(lb),
                                      IF new # {}
                                      THEN {"new achievements"} ELSE {},
                                      new, lb.board, c.data, "none"), lb)
    /\ UNCHANGED <<budgetVars, initVars, pendingRefresh, connected, authVars,
                   lastScoreSubmit, chatVars, sweepVars, lastAccepted,
                   connectedAt>>

----------------------------------------------------------------------------
(* Specifications *)

\* The energy subsystem: the handlers that read or write energy, on a clock
\* that advances by minutes
EnergyTickSteps == {3 * MS_PER_MINUTE, 5 * MS_PER_MINUTE}

NextEnergy ==
    \/ \E d \in EnergyTickSteps : Tick(d)
    \/ \E ok \in BOOLEAN : initializeDatabase(ok)
    \/ \E s \in Sockets : Connection(s)
    \/ \E s \in Sockets : Disconnect(s)
    \/ \E s \in Sockets, token \in Tokens, fail \in {"none", "energy"} :
         JoinGame(s, token, fail)
    \/ \E s \in Sockets, amount \in AmountInputs, ok \in BOOLEAN :
         UseEnergy(s, amount, ok)
    \/ \E s \in Sockets, ok \in BOOLEAN : CheckEnergy(s, ok)
    \/ \E s \in Sockets, token \in Tokens, fail \in SyncFailures :
         RequestUserSync(s, token, fail)
    \/ \E order \in SocketOrders : SweepStart(order)
    \/ \E ok \in BOOLEAN : SweepStep(ok)

SpecEnergy == Init /\ [][NextEnergy]_vars

\* Clock skew: the rows' last_energy_update was written by a clock that is
\* ahead of the server's (the column's DEFAULT NOW() is the database's
\* clock), by a millisecond or by five minutes.
ClockSkews == {1, 5 * MS_PER_MINUTE}

InitSkew ==
    \E skew \in ClockSkews :
        /\ now = StartTime
        /\ ticks = 0
        /\ events = 0
        /\ users = [u \in Users |->
                      [InitProfiles[u].row EXCEPT
                         !.last_energy_update = StartTime + skew]]
        /\ user_achievements = [u \in Users |-> InitProfiles[u].unlocked]
        /\ dbConnectionHealthy = FALSE
        /\ dbStub = FALSE
        /\ connected = [s \in Sockets |-> TRUE]
        /\ currentUser = [s \in Sockets |-> NoUser]
        /\ isAuthenticated = [s \in Sockets |-> FALSE]
        /\ lastScoreSubmit = [s \in Sockets |-> 0]
        /\ lastMessages = [s \in Sockets |-> <<>>]
        /\ rateLimitViolations = [s \in Sockets |-> 0]
        /\ connectedUsers = [s \in Sockets |-> 0]
        /\ leaderboardCache = [s \in Sockets |-> NoCache]
        /\ lastLeaderboardUpdate = [s \in Sockets |-> 0]
        /\ pendingRefresh = [s \in Sockets |-> <<>>]
        /\ calls = <<>>
        /\ stores = [a \in Adapters |-> SeasonedProfile.row]
        /\ sweepQueue = <<>>
        /\ nextSweepAt = StartTime + 60000
        /\ lastAccepted = [u \in Users |-> 0]
        /\ announced = [u \in Users |-> {}]
        /\ chatLog = [s \in Sockets |-> <<>>]
        /\ connectedAt = [s \in Sockets |-> StartTime]
        /\ lastEvent = Event("start", NoSocket, "ok", 0, {}, {}, {}, NoCache)

SpecSkew == InitSkew /\ [][NextEnergy]_vars

\* The energy sweep, minute by minute.  The behaviours start where the
\* database is up and socket s1 has just joined as alice: the join has read
\* her energy, so her row holds 7 units as of the start time.  The clock
\* then advances from one run of the sweep's interval timer to the next,
\* for SweepMinutes minutes, with at most MaxEvents handler runs per minute.
SweepMinutes == 6

SweepStartRow ==
    [InitProfiles["alice"].row EXCEPT !.energy = 7,
                                      !.last_energy_update = StartTime]

SweepStartBoard ==
    [isNull |-> FALSE,
     list |-> <<[score |-> 200, level |-> 7, username |-> "alice"]>>,
     readAt |-> StartTime]

InitSweep ==
    /\ now = StartTime
    /\ ticks = 0
    /\ events = 0
    /\ users = [u \in Users |-> IF u = "alice" THEN SweepStartRow
                                ELSE InitProfiles[u].row]
    /\ user_achievements = [u \in Users |-> InitProfiles[u].unlocked]
    /\ dbConnectionHealthy = TRUE
    /\ dbStub = FALSE
    /\ connected = [s \in Sockets |-> TRUE]
    /\ currentUser = [s \in Sockets |-> IF s = "s1" THEN "alice" ELSE NoUser]
    /\ isAuthenticated = [s \in Sockets |-> s = "s1"]
    /\ lastScoreSubmit = [s \in Sockets |-> 0]
    /\ lastMessages = [s \in Sockets |-> <<>>]
    /\ rateLimitViolations = [s \in Sockets |-> 0]
    /\ connectedUsers = [s \in Sockets |-> IF s = "s1" THEN 1 ELSE 0]
    /\ leaderboardCache =
         [s \in Sockets |-> IF s = "s1" THEN SweepStartBoard ELSE NoCache]
    /\ lastLeaderboardUpdate =
         [s \in Sockets |-> IF s = "s1" THEN StartTime ELSE 0]
    /\ pendingRefresh = [s \in Sockets |-> <<>>]
    /\ calls = <<>>
    /\ stores = [a \in Adapters |-> SeasonedProfile.row]
    /\ sweepQueue = <<>>
    /\ nextSweepAt = StartTime + 60000
    /\ lastAccepted = [u \in Users |-> 0]
    /\ announced = [u \in Users |-> {}]
    /\ chatLog = [s \in Sockets |-> <<>>]
    /\ connectedAt = [s \in Sockets |-> StartTime]
    /\ lastEvent =
         [Event("join game", "s1", "ok", 5,
                {"update leaderboard", "chat message"},
                {"sync energy", "sync score", "sync level", "chat message"},
                {}, SweepStartBoard)
            EXCEPT !.authed = FALSE, !.user = NoUser, !.refresh = "ok",
                   !.ttl = 60000, !.start = StartTime]

\* the clock reaches the next run of the sweep's interval timer
NextMinute ==
    /\ now < StartTime + SweepMinutes * 60000
    /\ now < nextSweepAt
    /\ sweepQueue = <<>>
    /\ now' = nextSweepAt
    /\ events' = 0
    /\ lastEvent' = Event("tick", NoSocket, "ok", 0, {}, {}, {}, NoCache)
    /\ UNCHANGED <<ticks, dbVars, initVars, flightVars, connected, authVars,
                   lastScoreSubmit, chatVars, cacheVars, sweepVars, ghostVars>>

NextSweep ==
    \/ NextMinute
    \/ \E s \in Sockets, ok \in BOOLEAN : CheckEnergy(s, ok)
    \/ \E order \in SocketOrders : SweepStart(order)
    \/ \E ok \in BOOLEAN : SweepStep(ok)

SpecSweep == InitSweep /\ [][NextSweep]_vars

\* Energy operations that overlap.  The behaviours start where the database
\* is up and both sockets have joined, s1 as alice and s2 as bob; the
\* handlers and the sweep's visits are split at the awaits of
\* db.updatePlayerEnergy, and the clock advances to the sweep's next run or
\* by five minutes.
RaceTickSteps == {60000, 5 * MS_PER_MINUTE}

RaceAmounts == {Int_(5), Int_(GAME_ENERGY_COST)}

InitRace ==
    /\ now = StartTime
    /\ ticks = 0
    /\ events = 0
    /\ users = [u \in Users |-> IF u = "alice" THEN SweepStartRow
                                ELSE InitProfiles[u].row]
    /\ user_achievements = [u \in Users |-> InitProfiles[u].unlocked]
    /\ dbConnectionHealthy = TRUE
    /\ dbStub = FALSE
    /\ connected = [s \in Sockets |-> TRUE]
    /\ currentUser = [s \in Sockets |-> IF s = "s1" THEN "alice" ELSE "bob"]
    /\ isAuthenticated = [s \in Sockets |-> TRUE]
    /\ lastScoreSubmit = [s \in Sockets |-> 0]
    /\ lastMessages = [s \in Sockets |-> <<>>]
    /\ rateLimitViolations = [s \in Sockets |-> 0]
    /\ connectedUsers = [s \in Sockets |-> 1]
    /\ leaderboardCache = [s \in Sockets |-> SweepStartBoard]
    /\ lastLeaderboardUpdate = [s \in Sockets |-> StartTime]
    /\ pendingRefresh = [s \in Sockets |-> <<>>]
    /\ calls = <<>>
    /\ stores = [a \in Adapters |-> SeasonedProfile.row]
    /\ sweepQueue = <<>>
    /\ nextSweepAt = StartTime + 60000
    /\ lastAccepted = [u \in Users |-> 0]
    /\ announced = [u \in Users |-> {}]
    /\ chatLog = [s \in Sockets |-> <<>>]
    /\ connectedAt = [s \in Sockets |-> StartTime]
    /\ lastEvent =
         [Event("join game", "s2", "ok", 5,
                {"update leaderboard", "chat message"},
                {"sync energy", "sync score", "sync level", "chat message"},
                {}, SweepStartBoard)
            EXCEPT !.authed = FALSE, !.user = NoUser, !.refresh = "ok",
                   !.ttl = 60000, !.start = StartTime]

NextRace ==
    \/ \E d \in RaceTickSteps : Tick(d)
    \/ \E s \in Sockets : Disconnect(s)
    \/ \E s \in Sockets, amount \in RaceAmounts : UseEnergyBegin(s, amount)
    \/ \E s \in Sockets : CheckEnergyBegin(s)
    \/ \E order \in SocketOrders : SweepStart(order)
    \/ SweepVisitBegin
    \/ \E i \in 1..MaxCalls, ok \in BOOLEAN : EnergySelect(i, ok)
    \/ \E i \in 1..MaxCalls, ok \in BOOLEAN : EnergyFinish(i, ok)

SpecRace == InitRace /\ [][NextRace]_vars

\* The score ledger: the handlers that read or write player stats, on a
\* clock that advances by seconds; of the storage calls only the inserts of
\* unlockAchievement fail
ScoreTickSteps == {2000, 5000}

NextScore ==
    \/ \E d \in ScoreTickSteps : Tick(d)
    \/ \E ok \in BOOLEAN : initializeDatabase(ok)
    \/ \E s \in Sockets : Connection(s)
    \/ \E s \in Sockets : Disconnect(s)
    \/ \E s \in Sockets, token \in Tokens : JoinGame(s, token, "none")
    \/ \E s \in Sockets, data \in SubmitInputs, fail \in {"none", "unlock"} :
         SubmitScore(s, data, fail)

SpecScore == Init /\ [][NextScore]_vars

\* one identity signed in on both connections, before any submission
InitLedger ==
    /\ now = StartTime
    /\ ticks = 0
    /\ events = 0
    /\ users = [u \in Users |-> IF u = "alice" THEN SweepStartRow
                                ELSE InitProfiles[u].row]
    /\ user_achievements = [u \in Users |-> InitProfiles[u].unlocked]
    /\ dbConnectionHealthy = TRUE
    /\ dbStub = FALSE
    /\ connected = [s \in Sockets |-> TRUE]
    /\ currentUser = [s \in Sockets |-> "alice"]
    /\ isAuthenticated = [s \in Sockets |-> TRUE]
    /\ lastScoreSubmit = [s \in Sockets |-> 0]
    /\ lastMessages = [s \in Sockets |-> <<>>]
    /\ rateLimitViolations = [s \in Sockets |-> 0]
    /\ connectedUsers = [s \in Sockets |-> 1]
    /\ leaderboardCache = [s \in Sockets |-> SweepStartBoard]
    /\ lastLeaderboardUpdate = [s \in Sockets |-> StartTime]
    /\ pendingRefresh = [s \in Sockets |-> <<>>]
    /\ calls = <<>>
    /\ stores = [a \in Adapters |-> SeasonedProfile.row]
    /\ sweepQueue = <<>>
    /\ nextSweepAt = StartTime + 60000
    /\ lastAccepted = [u \in Users |-> 0]
    /\ announced = [u \in Users |-> {}]
    /\ chatLog = [s \in Sockets |-> <<>>]
    /\ connectedAt = [s \in Sockets |-> StartTime]
    /\ lastEvent =
         [Event("join game", "s2", "ok", 5,
                {"update leaderboard", "chat message"},
                {"sync energy", "sync score", "sync level", "chat message"},
                {}, SweepStartBoard)
            EXCEPT !.authed = FALSE, !.user = NoUser, !.refresh = "ok",
                   !.ttl = 60000, !.start = StartTime]

\* 'submit score' split at its awaits, on a clock that advances by seconds
NextLedger ==
    \/ \E d \in ScoreTickSteps : Tick(d)
    \/ \E s \in Sockets, data \in ValidData : SubmitScoreBegin(s, data)
    \/ \E i \in 1..MaxCalls : StatsSelect(i)
    \/ \E i \in 1..MaxCalls : StatsFinish(i)

SpecLedger == InitLedger /\ [][NextLedger]_vars

\* The adapters side by side: the same upsertPlayer calls made on each
\* adapter's copy of one existing user's row
UpsertScores == {0, 100, 200, 450}
UpsertLevels == {1, 5, 7, 9}

InitAdapters ==
    /\ now = StartTime
    /\ ticks = 0
    /\ events = 0
    /\ users = [u \in Users |-> InitProfiles[u].row]
    /\ user_achievements = [u \in Users |-> InitProfiles[u].unlocked]
    /\ dbConnectionHealthy = FALSE
    /\ dbStub = FALSE
    /\ connected = [s \in Sockets |-> TRUE]
    /\ currentUser = [s \in Sockets |-> NoUser]
    /\ isAuthenticated = [s \in Sockets |-> FALSE]
    /\ lastScoreSubmit = [s \in Sockets |-> 0]
    /\ lastMessages = [s \in Sockets |-> <<>>]
    /\ rateLimitViolations = [s \in Sockets |-> 0]
    /\ connectedUsers = [s \in Sockets |-> 0]
    /\ leaderboardCache = [s \in Sockets |-> NoCache]
    /\ lastLeaderboardUpdate = [s \in Sockets |-> 0]
    /\ pendingRefresh = [s \in Sockets |-> <<>>]
    /\ calls = <<>>
    /\ \E profile \in {SeasonedProfile, FreshProfile} :
          stores = [a \in Adapters |-> profile.row]
    /\ sweepQueue = <<>>
    /\ nextSweepAt = StartTime + 60000
    /\ lastAccepted = [u \in Users |-> 0]
    /\ announced = [u \in Users |-> {}]
    /\ chatLog = [s \in Sockets |-> <<>>]
    /\ connectedAt = [s \in Sockets |-> StartTime]
    /\ lastEvent = Event("start", NoSocket, "ok", 0, {}, {}, {}, NoCache)

upsertPlayer(score, level) ==
    /\ Step
    /\ stores' = [a \in Adapters |->
                    AdapterUpsert(a, stores[a], score, level)]
    /\ lastEvent' = SubmitEvent(NoSocket, "upsertPlayer", 1, {}, {}, {},
                                NoCache,
                                Data(Int_(score), Int_(level), NotInt,
                                     NotBool), "none")
    /\ UNCHANGED <<clockVars, dbVars, dbConnectionHealthy, dbStub, flightVars,
                   connected, authVars, lastScoreSubmit, chatVars, cacheVars,
                   sweepVars, ghostVars>>

NextAdapters ==
    \E score \in UpsertScores, level \in UpsertLevels :
        upsertPlayer(score, level)

SpecAdapters == InitAdapters /\ [][NextAdapters]_vars

\* The whole server
Next ==
    \/ \E d \in TickSteps : Tick(d)
    \/ \E ok \in BOOLEAN : initializeDatabase(ok)
    \/ \E s \in Sockets : Connection(s)
    \/ \E s \in Sockets : Disconnect(s)
    \/ \E s \in Sockets : DisconnectAgain(s)
    \/ \E s \in Sockets, token \in Tokens, fail \in JoinFailures :
         JoinGame(s, token, fail)
    \/ \E s \in Sockets, msg \in MsgInputs : ChatMessage(s, msg)
    \/ \E s \in Sockets, data \in SubmitInputs, fail \in SubmitFailures :
         SubmitScore(s, data, fail)
    \/ \E s \in Sockets, amount \in AmountInputs, ok \in BOOLEAN :
         UseEnergy(s, amount, ok)
    \/ \E s \in Sockets, ok \in BOOLEAN : CheckEnergy(s, ok)
    \/ \E s \in Sockets, okBoard \in BOOLEAN :
         RequestLeaderboardUpdate(s, okBoard)
    \/ \E s \in Sockets, token \in Tokens, fail \in SyncFailures :
         RequestUserSync(s, token, fail)
    \/ \E order \in SocketOrders : SweepStart(order)
    \/ \E ok \in BOOLEAN : SweepStep(ok)

Spec == Init /\ [][Next]_vars

\* The leaderboard cache: the handlers that call updateLeaderboard, on a
\* clock that advances by tens of seconds.  The behaviours start where
\* socket s1 has sent 'join game' with alice's token five times while the
\* database was still initialising: its closure counts five connected users.
BoardTickSteps == {20000, 40000}

BoardData ==
    {Data(Int_(100), Int_(5), Int_(30), Bool_(TRUE)),
     Data(Int_(100000), Int_(5), Int_(30), Bool_(TRUE))}

InitBoard ==
    /\ now = StartTime
    /\ ticks = 0
    /\ events = 0
    /\ users = [u \in Users |-> InitProfiles[u].row]
    /\ user_achievements = [u \in Users |-> InitProfiles[u].unlocked]
    /\ dbConnectionHealthy = FALSE
    /\ dbStub = FALSE
    /\ connected = [s \in Sockets |-> TRUE]
    /\ currentUser = [s \in Sockets |-> IF s = "s1" THEN "alice" ELSE NoUser]
    /\ isAuthenticated = [s \in Sockets |-> s = "s1"]
    /\ lastScoreSubmit = [s \in Sockets |-> 0]
    /\ lastMessages = [s \in Sockets |-> <<>>]
    /\ rateLimitViolations = [s \in Sockets |-> 0]
    /\ connectedUsers = [s \in Sockets |-> IF s = "s1" THEN 5 ELSE 0]
    /\ leaderboardCache = [s \in Sockets |-> NoCache]
    /\ lastLeaderboardUpdate = [s \in Sockets |-> 0]
    /\ pendingRefresh = [s \in Sockets |-> <<>>]
    /\ calls = <<>>
    /\ stores = [a \in Adapters |-> SeasonedProfile.row]
    /\ sweepQueue = <<>>
    /\ nextSweepAt = StartTime + 60000
    /\ lastAccepted = [u \in Users |-> 0]
    /\ announced = [u \in Users |-> {}]
    /\ chatLog = [s \in Sockets |-> <<>>]
    /\ connectedAt = [s \in Sockets |-> StartTime]
    /\ lastEvent = Event("join game", "s1", "database down", 0, {},
                         {"auth_error"}, {}, NoCache)

NextBoard ==
    \/ \E d \in BoardTickSteps : Tick(d)
    \/ \E ok \in BOOLEAN : initializeDatabase(ok)
    \/ \E s \in Sockets : Connection(s)
    \/ \E s \in Sockets : Disconnect(s)
    \/ \E s \in Sockets, token \in Users, fail \in {"none", "board"} :
          JoinGame(s, token, fail)
    \/ \E s \in Sockets, okBoard \in BOOLEAN : RequestLeaderboardUpdate(s, okBoard)
    \/ \E s \in Sockets, data \in BoardData, fail \in {"none", "board"} :
          SubmitScore(s, data, fail)

SpecBoard == InitBoard /\ [][NextBoard]_vars

\* Chat: one connection that has joined as alice while storage was down
\* and whose 'chat message' handler has already run, 8 seconds ago, all in
\* the same millisecond: never, four times with every message sent on, or
\* ten times with five messages sent on and five refused.
ChatTickSteps == {1999, 2000}

ChatHistories ==
    {[sent |-> 0, refused |-> 0], [sent |-> 4, refused |-> 0],
     [sent |-> 5, refused |-> 5]}

InitChat ==
    \E h \in ChatHistories :
        /\ now = StartTime + 8000
        /\ ticks = 0
        /\ events = 0
        /\ users = [u \in Users |-> InitProfiles[u].row]
        /\ user_achievements = [u \in Users |-> InitProfiles[u].unlocked]
        /\ dbConnectionHealthy = FALSE
        /\ dbStub = FALSE
        /\ connected = [s \in Sockets |-> TRUE]
        /\ currentUser =
             [s \in Sockets |-> IF s = "s1" THEN "alice" ELSE NoUser]
        /\ isAuthenticated = [s \in Sockets |-> s = "s1"]
        /\ lastScoreSubmit = [s \in Sockets |-> 0]
        /\ lastMessages =
             [s \in Sockets |->
                IF s = "s1" THEN [i \in 1..h.sent |-> StartTime] ELSE <<>>]
        /\ rateLimitViolations =
             [s \in Sockets |-> IF s = "s1" THEN h.refused ELSE 0]
        /\ chatLog = lastMessages
        /\ connectedAt = [s \in Sockets |-> StartTime]
        /\ connectedUsers = [s \in Sockets |-> IF s = "s1" THEN 1 ELSE 0]
        /\ leaderboardCache = [s \in Sockets |-> NoCache]
        /\ lastLeaderboardUpdate = [s \in Sockets |-> 0]
        /\ pendingRefresh = [s \in Sockets |-> <<>>]
        /\ calls = <<>>
        /\ stores = [a \in Adapters |-> SeasonedProfile.row]
        /\ sweepQueue = <<>>
        /\ nextSweepAt = StartTime + 60000
        /\ lastAccepted = [u \in Users |-> 0]
        /\ announced = [u \in Users |-> {}]
        /\ lastEvent = Event("tick", NoSocket, "ok", 0, {}, {}, {}, NoCache)

NextChat ==
    \/ \E d \in ChatTickSteps : Tick(d)
    \/ \E ok \in BOOLEAN : initializeDatabase(ok)
    \/ \E s \in Sockets : Connection(s)
    \/ \E s \in Sockets : Disconnect(s)
    \/ \E s \in Sockets : DisconnectAgain(s)
    \/ \E s \in Sockets, token \in Users : JoinGame(s, token, "none")
    \/ \E s \in Sockets, msg \in MsgInputs : ChatMessage(s, msg)

SpecChat == InitChat /\ [][NextChat]_vars

\* Idle connections: sockets that connect, join or stay silent while the
\* clock advances by a minute or by an hour and the server's own timer, the
\* energy sweep, runs.
IdleTickSteps == {60000, 3600000}

NextIdle ==
    \/ \E d \in IdleTickSteps : Tick(d)
    \/ \E ok \in BOOLEAN : initializeDatabase(ok)
    \/ \E s \in Sockets : Connection(s)
    \/ \E s \in Sockets : Disconnect(s)
    \/ \E s \in Sockets : DisconnectAgain(s)
    \/ \E s \in Sockets, token \in Tokens : JoinGame(s, token, "none")
    \/ \E s \in Sockets, msg \in MsgInputs : ChatMessage(s, msg)
    \/ \E order \in SocketOrders : SweepStart(order)
    \/ \E ok \in BOOLEAN : SweepStep(ok)

SpecIdle == Init /\ [][NextIdle]_vars

\* Overlapping leaderboard refreshes: joins, score commits and
\* 'request leaderboard update' runs that wait for storage while the clock
\* and other handlers go on
OverlapTickSteps == {20000, 300000}

NextOverlap ==
    \/ \E d \in OverlapTickSteps : Tick(d)
    \/ \E ok \in BOOLEAN : initializeDatabase(ok)
    \/ \E s \in Sockets, token \in Users : JoinGame(s, token, "none")
    \/ \E s \in Sockets, data \in BoardData : SubmitScore(s, data, "none")
    \/ \E s \in Sockets : RefreshBegin(s)
    \/ \E s \in Sockets, i \in 1..MaxPending, ok \in BOOLEAN :
          RefreshRead(s, i, ok)
    \/ \E s \in Sockets, i \in 1..MaxPending : RefreshEnd(s, i)

SpecOverlap == Init /\ [][NextOverlap]_vars

----------------------------------------------------------------------------
(* Properties *)

\* what the specification calls regenerate(state, now).amount
RegeneratedAmount(user, t) ==
    Min(MAX_ENERGY,
        user.energy + ((t - user.last_energy_update)
                          \div (ENERGY_REGENERATION_MINUTES * MS_PER_MINUTE)))

\* a 'submit score' payload the specification rejects in step 1
OutOfRange(x, low, high) == ~x.isInt \/ x.v < low \/ x.v > high

InvalidSubmission(d) ==
    \/ OutOfRange(d.score, 0, MAX_SCORE)
    \/ OutOfRange(d.gameTime, 0, MAX_GAME_TIME)
    \/ OutOfRange(d.level, 1, MAX_LEVEL)
    \/ ~d.won.isBool

\* a valid payload over the plausibility ceiling level * 150 + 500
SuspiciousSubmission(d) ==
    /\ ~InvalidSubmission(d)
    /\ d.score.v > d.level.v * SCORE_PER_LEVEL + SCORE_BUFFER

\* C1: in every reachable state every identity's stored energy is between 0
\* and MAX_ENERGY, whatever joins, spends, reads, syncs and sweep visits
\* came before.
C1_EnergyInRange ==
    \A u \in Users : users[u].energy >= 0 /\ users[u].energy <= MAX_ENERGY

\* a spend has just been applied whose debit would have gone below zero:
\* the stored amount was clamped to 0
C1_Witness ==
    /\ lastEvent.handler = "use energy"
    /\ lastEvent.outcome = "ok"
    /\ users[lastEvent.user].energy = 0

\* C2: an applied spend leaves regenerated - cost when the regenerated
\* amount covers the cost, and otherwise the regenerated amount, neither
\* debited nor clamped; the stored amount is never negative.
C2_SpendAtomicity ==
    [][(lastEvent'.handler = "use energy" /\ lastEvent'.outcome = "ok") =>
          LET u == lastEvent'.user
              regenerated == RegeneratedAmount(users[u], now)
          IN  /\ users'[u].energy >= 0
              /\ users'[u].energy =
                   IF regenerated >= GAME_ENERGY_COST
                   THEN regenerated - GAME_ENERGY_COST
                   ELSE regenerated]_vars

\* C3: a committed submission leaves the stored score at the maximum of the
\* stored and the submitted score, and likewise the level; no step lowers
\* either.
C3_BestScoreAndLevelAreMaxima ==
    [][/\ \A u \in Users : /\ users'[u].score >= users[u].score
                           /\ users'[u].level >= users[u].level
       /\ Committed(lastEvent') =>
             LET u == lastEvent'.user
                 d == lastEvent'.data
             IN  /\ users'[u].score = Max(users[u].score, d.score.v)
                 /\ users'[u].level = Max(users[u].level, d.level.v)]_vars

\* C4: no step lowers max_streak; best_time, once set, stays set and never
\* rises; a committed win leaves best_time at the minimum of the stored best
\* time, if any, and the game's time, a time of 0 included.
C4_StreakAndBestTimeMonotone ==
    [][/\ \A u \in Users :
            /\ users'[u].max_streak >= users[u].max_streak
            /\ users[u].best_time # Null =>
                  /\ users'[u].best_time # Null
                  /\ users'[u].best_time <= users[u].best_time
       /\ (Committed(lastEvent') /\ lastEvent'.data.won.v) =>
             LET u == lastEvent'.user
                 gameTime == lastEvent'.data.gameTime.v
             IN  users'[u].best_time =
                    IF users[u].best_time = Null THEN gameTime
                    ELSE Min(users[u].best_time, gameTime)]_vars

\* C5: a run of a handler that can touch storage or broadcast, on a socket
\* that is not authenticated, makes no storage call and emits nothing to
\* all sockets.
GatedEvents ==
    {"chat message", "submit score", "use energy", "check energy",
     "request leaderboard update", "request user sync"}

C5_AuthGate ==
    (lastEvent.handler \in GatedEvents /\ ~lastEvent.authed) =>
       (lastEvent.dbCalls = 0 /\ lastEvent.toAll = {})

\* C6: a 'join game' on a socket that is already authenticated leaves its
\* identity, its authenticated flag and its connected-users count as they
\* were.
C6_NoRebinding ==
    [][(lastEvent'.handler = "join game" /\ lastEvent'.authed) =>
          LET s == lastEvent'.socket
          IN  /\ currentUser'[s] = currentUser[s]
              /\ isAuthenticated'[s] = isAuthenticated[s]
              /\ connectedUsers'[s] = connectedUsers[s]]_vars

\* C7: a 'submit score' whose score, game time or level is no integer of
\* its range, or whose won is no boolean, changes no stored row, no unlocked
\* achievement and no last-submit timestamp, makes no storage call and emits
\* nothing: no leaderboard, no achievement notification.
C7_InvalidSubmissionChangesNothing ==
    [][(lastEvent'.handler = "submit score"
        /\ InvalidSubmission(lastEvent'.data)) =>
          /\ UNCHANGED <<users, user_achievements, lastScoreSubmit,
                         leaderboardCache, lastLeaderboardUpdate>>
          /\ lastEvent'.dbCalls = 0
          /\ lastEvent'.toAll = {}
          /\ lastEvent'.toSocket = {}]_vars

\* an authenticated socket that has a submission on record has just sent an
\* invalid one at a later time
C7_Witness ==
    /\ lastEvent.handler = "submit score"
    /\ lastEvent.authed
    /\ InvalidSubmission(lastEvent.data)
    /\ lastScoreSubmit[lastEvent.socket] # 0
    /\ lastScoreSubmit[lastEvent.socket] < now

C9_FiveSecondsPerIdentity ==
    [][Committed(lastEvent') =>
          LET u == lastEvent'.user
          IN  \/ lastAccepted[u] = 0
              \/ now - lastAccepted[u] >= SCORE_SUBMIT_GAP]_vars

\* C10: a committed submission sends as new no achievement id that an
\* earlier submission of the same identity already sent as new.
C10_AchievementAnnouncedOnce ==
    [][Committed(lastEvent') =>
          lastEvent'.newAchievements \cap announced[lastEvent'.user] = {}]_vars

\* what the specification takes an achievement condition to be: the stat at
\* or over the threshold, a best time that is set and at or under it
ConditionHolds(achievement, stats) ==
    CASE achievement.condition_type = "total_games" ->
            stats.total_games >= achievement.condition_value
      [] achievement.condition_type = "score" ->
            stats.score >= achievement.condition_value
      [] achievement.condition_type = "current_streak" ->
            stats.current_streak >= achievement.condition_value
      [] achievement.condition_type = "total_play_time" ->
            stats.total_play_time >= achievement.condition_value
      [] achievement.condition_type = "best_time" ->
            /\ stats.best_time # Null
            /\ stats.best_time <= achievement.condition_value
      [] achievement.condition_type = "created" -> TRUE
      [] OTHER -> FALSE

\* C11: the achievements a committed submission returns as new are exactly
\* the catalog entries whose condition holds of the stats just stored and
\* that were not unlocked before, a best time of 0 counting as set.
C11_EvaluationExact ==
    [][(Committed(lastEvent') /\ lastEvent'.fail \in {"none", "unlock"}) =>
          LET u == lastEvent'.user
          IN  lastEvent'.newAchievements =
                 {a.id : a \in {b \in Catalog :
                                   /\ b.id \notin user_achievements[u]
                                   /\ ConditionHolds(b, users'[u])}}]_vars

\* C12: a read of the energy stores min(cap, amount + floor(elapsed /
\* interval)) for every stored amount, a stored amount of 0 included.
C12_RegenerationFormula ==
    [][(lastEvent'.handler = "check energy" /\ lastEvent'.outcome = "ok") =>
          LET u == lastEvent'.user
          IN  users'[u].energy = RegeneratedAmount(users[u], now)]_vars

\* times after now at which a read of the energy is probed
ProbeOffsets ==
    {0, 5 * MS_PER_MINUTE, 12 * MS_PER_MINUTE, 600 * MS_PER_MINUTE}

\* getPlayerEnergy's amount for a stored row at time t
ReportedEnergy(user, t) == updatePlayerEnergyResult(user, t, 0).energy

\* C13: for every stored row and times now2 >= now1 >= last_energy_update,
\* the amount a read reports at now2 is at least the amount it reports at
\* now1, and both are at most MAX_ENERGY.
C13_RegenerationMonotone ==
    \A u \in Users : \A d1, d2 \in ProbeOffsets :
        (users[u].last_energy_update <= now /\ d1 <= d2) =>
            /\ ReportedEnergy(users[u], now + d1)
                  <= ReportedEnergy(users[u], now + d2)
            /\ ReportedEnergy(users[u], now + d2) <= MAX_ENERGY

\* a read has just stored an amount under the cap, and later reads of that
\* row report strictly more, up to the cap
C13_Witness ==
    /\ lastEvent.handler = "check energy"
    /\ lastEvent.outcome = "ok"
    /\ LET row == users[lastEvent.user]
       IN  /\ row.energy > 0
           /\ row.energy < MAX_ENERGY
           /\ \E d1, d2 \in ProbeOffsets :
                 /\ d1 < d2
                 /\ ReportedEnergy(row, now + d1) < ReportedEnergy(row, now + d2)
                 /\ ReportedEnergy(row, now + d2) = MAX_ENERGY







\* C14: a non-forced leaderboard get (the one 'join game' makes) that comes
\* within the cache duration of a successful refresh, whichever socket's
\* handler made that refresh, serves the cached list without a storage
\* query.
C14_CacheSharedByAllSessions ==
    [][(lastEvent'.handler = "join game" /\ lastEvent'.refresh # "none") =>
          \A s \in Sockets :
              (/\ ~leaderboardCache[s].isNull
               /\ now - lastLeaderboardUpdate[s] < lastEvent'.ttl) =>
                  lastEvent'.refresh = "hit"]_vars

\* the connected authenticated sessions
SessionCount ==
    Cardinality({s \in Sockets : connected[s] /\ Authed(s)})

\* C15: the cache duration a leaderboard get computes is 15 s when more
\* than 10 authenticated sessions are connected, 30 s when more than 5, and
\* 60 s otherwise.
C15_TtlFollowsSessionCount ==
    [][lastEvent'.refresh # "none" =>
          lastEvent'.ttl =
             (IF SessionCount' > 10 THEN 15000
              ELSE IF SessionCount' > 5 THEN 30000 ELSE 60000)]_vars

\* C16: when db.getLeaderboard fails in a refresh on a connection that has
\* a cached list, that list is what is emitted to every socket, and the
\* cached list and its timestamp stay as they were.
C16_StaleCacheServedOnFailure ==
    [][(/\ lastEvent'.refresh = "failed"
        /\ ~leaderboardCache[lastEvent'.socket].isNull) =>
          LET s == lastEvent'.socket
          IN  /\ "update leaderboard" \in lastEvent'.toAll
              /\ lastEvent'.board = leaderboardCache[s]
              /\ leaderboardCache'[s] = leaderboardCache[s]
              /\ lastLeaderboardUpdate'[s] = lastLeaderboardUpdate[s]]_vars

\* a refresh has just failed on a connection whose cached list was not
\* empty and no longer matched the users table: the cached list was emitted
C16_Witness ==
    /\ lastEvent.refresh = "failed"
    /\ ~lastEvent.board.isNull
    /\ lastEvent.board.list # <<>>
    /\ lastEvent.board = leaderboardCache[lastEvent.socket]
    /\ lastEvent.board.list \notin getLeaderboardResults(users, LEADERBOARD_LIMIT)





\* C17: a committed submission, its storage calls succeeding, queries the
\* leaderboard after its writes and emits to every socket a list that is a
\* ranking of the users table as the commit left it; and whenever
\* updateLeaderboard emits a list without a storage failure, cached or just
\* fetched, the list is no older than the cache duration plus the time this
\* call waited for storage, also when calls overlap.
C17_CommitRefreshAndStaleness ==
    [][/\ (Committed(lastEvent') /\ lastEvent'.fail = "none") =>
             /\ lastEvent'.refresh = "ok"
             /\ "update leaderboard" \in lastEvent'.toAll
             /\ lastEvent'.board.readAt = now'
             /\ lastEvent'.board.list
                   \in getLeaderboardResults(users', LEADERBOARD_LIMIT)
       /\ (lastEvent'.refresh \in {"hit", "ok"} /\ ~lastEvent'.board.isNull) =>
             now' - lastEvent'.board.readAt
                <= lastEvent'.ttl + (now' - lastEvent'.start)]_vars

\* a 'request leaderboard update' has just emitted a list that storage
\* produced earlier, before a score commit that the list does not show
C17_Witness ==
    /\ lastEvent.handler = "request leaderboard update"
    /\ lastEvent.refresh = "ok"
    /\ lastEvent.board.readAt < now
    /\ lastEvent.board.list \notin getLeaderboardResults(users, LEADERBOARD_LIMIT)
    /\ \E u \in Users : lastAccepted[u] >= lastEvent.start






\* the entries of a socket's chat log that lie less than 10 seconds before t
SentWithin10s(log, t) == {i \in 1..Len(log) : t - log[i] < 10000}

\* six messages of one chat log lie inside one window of 10 seconds
SixInsideTenSeconds(log) ==
    \E i \in 1..Len(log) : i + 5 <= Len(log) /\ log[i + 5] - log[i] < 10000

\* C18: no socket ever has six of its chat messages sent to everyone inside
\* one window of 10 seconds; a message sent on while the socket has more than
\* 3 violations is at most the third of its window; a message over the cap
\* reaches nobody but its sender, makes no storage call and adds nothing to
\* the socket's window or to the messages sent on.
C18_ChatRateLimit ==
    [][\A s \in Sockets :
         /\ ~SixInsideTenSeconds(chatLog'[s])
         /\ (lastEvent'.handler = "chat message" /\ lastEvent'.socket = s
             /\ lastEvent'.outcome = "ok" /\ rateLimitViolations[s] > 3) =>
               Cardinality(SentWithin10s(chatLog'[s], now')) <= 3
         /\ (lastEvent'.handler = "chat message" /\ lastEvent'.socket = s
             /\ lastEvent'.outcome = "rate limited") =>
               /\ lastEvent'.toAll = {}
               /\ lastEvent'.dbCalls = 0
               /\ chatLog'[s] = chatLog[s]
               /\ Len(lastMessages'[s]) <= Len(lastMessages[s])
               /\ \A i \in 1..Len(lastMessages'[s]) :
                    \E j \in 1..Len(lastMessages[s]) :
                       lastMessages'[s][i] = lastMessages[s][j]]_vars

\* a socket under the tightened cap has just had a message refused, with
\* three of its messages sent on in the last 10 seconds and more before them
C18_Witness ==
    /\ lastEvent.handler = "chat message"
    /\ lastEvent.outcome = "rate limited"
    /\ rateLimitViolations[lastEvent.socket] > 3
    /\ Cardinality(SentWithin10s(chatLog[lastEvent.socket], now)) = 3
    /\ Len(chatLog[lastEvent.socket]) > 3


\* C19 as stated: a run of the 'disconnect' listener leaves the socket with
\* no bound user, unauthenticated, with an empty rate-limit window and its
\* counters (violations, last submission) cleared, and a run on a socket that
\* is already gone changes nothing the first run left.
C19_DisconnectIdempotent ==
    [][\A s \in Sockets :
         (lastEvent'.handler = "disconnect" /\ lastEvent'.socket = s) =>
            /\ currentUser'[s] = NoUser
            /\ ~isAuthenticated'[s]
            /\ lastMessages'[s] = <<>>
            /\ rateLimitViolations'[s] = 0
            /\ lastScoreSubmit'[s] = 0
            /\ connectedUsers'[s] >= connectedUsers[s] - 1
            /\ ~connected[s] =>
                 UNCHANGED <<currentUser, isAuthenticated, lastMessages,
                             rateLimitViolations, lastScoreSubmit,
                             connectedUsers>>]_vars


\* the longest time the specification's grace period for authentication is
\* taken to last; the server sets no timer for it
AuthGracePeriod == 600000

\* a socket that is open, has not authenticated, and connected longer ago
\* than the grace period
Overdue(s) ==
    /\ connected[s]
    /\ ~Authed(s)
    /\ now - connectedAt[s] > AuthGracePeriod

\* C20: once the grace period since its 'connection' event has passed, a
\* socket that has not authenticated is closed by the server: at the latest
\* when the next handler after the clock has passed the deadline has run, no
\* such socket is still open.
C20_UnauthenticatedSocketClosed ==
    (\E s \in Sockets : Overdue(s)) => lastEvent.handler = "tick"






\* C21: a 'use energy' run whose amount is not the game cost (no integer,
\* out of range, or another integer) makes no storage call, emits nothing
\* and leaves every user's energy and last_energy_update as they were: no
\* other amount is debited in its place.
C21_OtherAmountRejected ==
    [][(lastEvent'.handler = "use energy"
        /\ lastEvent'.amount # Int_(GAME_ENERGY_COST)) =>
          /\ lastEvent'.dbCalls = 0
          /\ lastEvent'.toSocket = {}
          /\ lastEvent'.toAll = {}
          /\ users' = users]_vars

\* an authenticated socket whose user has energy to spend has just asked for
\* an integer amount inside the accepted range that is not the game cost
C21_Witness ==
    /\ lastEvent.handler = "use energy"
    /\ lastEvent.authed
    /\ lastEvent.amount.isInt
    /\ lastEvent.amount.v > 0
    /\ lastEvent.amount.v <= MAX_ENERGY_REQUEST
    /\ lastEvent.amount.v # GAME_ENERGY_COST
    /\ ~dbStub
    /\ users[lastEvent.user].energy >= lastEvent.amount.v


\* C22: a run that regenerates a row while the server's clock is behind the
\* row's last_energy_update (a 'check energy', a join, a sync or a sweep
\* step, not a spend) adds 0 units and does not lower the stored amount.
C22_SkewAddsNothing ==
    [][\A u \in Users :
         (/\ now' < users[u].last_energy_update
          /\ users'[u] # users[u]
          /\ lastEvent'.handler # "use energy") =>
            /\ updatePlayerEnergyResult(users[u], now', 0).energyAdded = 0
            /\ users'[u].energy >= users[u].energy]_vars


\* C23: a 'submit score' run never leaves a partial commit: every achievement
\* it sends as new is stored for its user, and the user's score or level
\* changes only together with the game statistics (one more game counted).
C23_CommitAllOrNothing ==
    [][lastEvent'.handler = "submit score" /\ lastEvent'.authed =>
         LET u == lastEvent'.user
         IN  /\ lastEvent'.newAchievements \subseteq user_achievements'[u]
             /\ (users'[u].score # users[u].score
                 \/ users'[u].level # users[u].level) =>
                   users'[u].total_games = users[u].total_games + 1]_vars










\* C24: alice's session stays connected and nothing spends her energy, so
\* whenever the sweep has read her energy from storage, the stored amount has
\* risen by one unit for every 5 minutes since the session began (up to the
\* cap), and a visit that finds it risen sends her 'sync energy'.
C24_SweptEnergyRises ==
    [][(/\ lastEvent'.handler = "sweep visit"
        /\ lastEvent'.outcome = "ok"
        /\ lastEvent'.user = "alice") =>
          /\ users'["alice"].energy >= RegeneratedAmount(SweepStartRow, now')
          /\ users'["alice"].energy > users["alice"].energy =>
               "sync energy" \in lastEvent'.toSocket]_vars


\* how long after a read the energy is read again
LaterOffsets == {1 * MS_PER_MINUTE, 3 * MS_PER_MINUTE, 5 * MS_PER_MINUTE}

\* C25: a run that reads a user's energy and persists the result (any run
\* that rewrites the row other than a spend) does not change what a later
\* read reports: the amount regenerated from the rewritten row at a later
\* time equals the amount regenerated at that time from the row as it was.
C25_ReadKeepsProgress ==
    [][\A u \in Users :
         (users'[u] # users[u] /\ lastEvent'.handler # "use energy") =>
            \A d \in LaterOffsets :
               ReportedEnergy(users'[u], now' + d)
                  = ReportedEnergy(users[u], now' + d)]_vars






\* C26: no two runs of the event handlers of one socket are suspended on
\* storage at the same time (the sweep's visit is not a handler of the socket).
C26_OneHandlerPerSocket ==
    \A i, j \in 1..Len(calls) :
        (/\ i # j
         /\ calls[i].kind # "sweep visit"
         /\ calls[j].kind # "sweep visit") =>
            calls[i].socket # calls[j].socket


\* C27: every spend that is applied is debited: when the write of a
\* 'use energy' run lands on a row that holds at least the cost, the stored
\* amount goes down, whatever other energy operations on that user overlap
\* with it.
C27_NoLostEnergyUpdate ==
    [][\A i \in 1..Len(calls) :
         (/\ calls[i].phase = "update"
          /\ calls[i].kind = "use energy"
          /\ users[calls[i].user].energy >= GAME_ENERGY_COST
          /\ calls' = WithoutCall(i)
          /\ lastEvent'.handler = calls[i].kind
          /\ lastEvent'.outcome = "ok") =>
            users'[calls[i].user].energy < users[calls[i].user].energy]_vars



\* C29: while the sweep has sockets left to visit it can take the next one,
\* whether or not the storage call of an earlier visit has answered.
C29_SweepNotBlocked ==
    (/\ sweepQueue # <<>>
     /\ events < MaxEvents
     /\ Len(calls) < MaxCalls) => ENABLED SweepVisitBegin

\* C30: a sweep visit acts on a socket only while it is open: a step of the
\* visit of a socket whose 'disconnect' handler has returned makes no storage
\* call and emits nothing.
C30_NoSweepAfterClose ==
    [][(/\ lastEvent'.handler = "sweep visit"
        /\ lastEvent'.socket \in Sockets
        /\ ~connected[lastEvent'.socket]) =>
          /\ lastEvent'.dbCalls = 0
          /\ lastEvent'.toSocket = {}]_vars


\* C28: every accepted submission counts: when the stats update of a
\* 'submit score' run lands, the stored total_games goes up by one and the
\* stored total_play_time by the run's gameTime, whatever other submissions
\* for that identity are in flight.
C28_EverySubmissionCounted ==
    [][\A i \in 1..Len(calls) :
         (/\ calls[i].phase = "stats"
          /\ calls' = WithoutCall(i)
          /\ lastEvent'.handler = "submit score"
          /\ lastEvent'.outcome = "ok") =>
            LET u == calls[i].user
            IN  /\ users'[u].total_games = users[u].total_games + 1
                /\ users'[u].total_play_time =
                      users[u].total_play_time + calls[i].data.gameTime.v]_vars




\* the number of a socket's messages in the window the handler looks at
WindowCount(s) ==
    Len(SelectSeq(lastMessages[s], LAMBDA time : now - time < 10000))

\* the cap in force for a socket
WindowCap(s) == IF rateLimitViolations[s] > 3 THEN 3 ELSE 5

\* C31: a chat message refused at or over the cap adds one to the socket's
\* violation counter; a chat message handled while the socket has fewer than
\* half the cap of messages in its window takes one off the counter, down to
\* 0; and the counter is never negative.
C31_ViolationCounter ==
    [][\A s \in Sockets :
         /\ rateLimitViolations'[s] >= 0
         /\ (lastEvent'.handler = "chat message" /\ lastEvent'.socket = s) =>
              /\ lastEvent'.outcome = "rate limited" =>
                   /\ WindowCount(s) >= WindowCap(s)
                   /\ rateLimitViolations'[s] = rateLimitViolations[s] + 1
              /\ (/\ lastEvent'.outcome = "ok"
                  /\ 2 * WindowCount(s) < WindowCap(s)) =>
                   rateLimitViolations'[s] =
                      Max(0, rateLimitViolations[s] - 1)]_vars


\* max_streak is at least current_streak in every stored row
StreakBound(table) ==
    \A u \in Users : table[u].max_streak >= table[u].current_streak

PlayerStats(row) ==
    [score |-> row.score, level |-> row.level, best_time |-> row.best_time,
     total_games |-> row.total_games,
     total_play_time |-> row.total_play_time,
     current_streak |-> row.current_streak, max_streak |-> row.max_streak]

\* C33: a 'use energy' run on a socket leaves the row of every user but the
\* socket's own as it was, and leaves the stats columns and the unlocked
\* achievements of every user, the socket's own included, as they were.
C33_UseEnergyFrame ==
    [][lastEvent'.handler = "use energy" =>
         /\ user_achievements' = user_achievements
         /\ \A u \in Users :
              /\ PlayerStats(users'[u]) = PlayerStats(users[u])
              /\ u # lastEvent'.user => users'[u] = users[u]]_vars

\* a spend has just been applied to the row of a user who has stats and
\* unlocked achievements, while another user's row holds energy as well
C33_Witness ==
    /\ lastEvent.handler = "use energy"
    /\ lastEvent.outcome = "ok"
    /\ lastEvent.user \in Users
    /\ users[lastEvent.user].last_energy_update = now
    /\ users[lastEvent.user].energy < INITIAL_ENERGY
    /\ users[lastEvent.user].total_games > 0
    /\ user_achievements[lastEvent.user] # {}
    /\ \E v \in Users : v # lastEvent.user /\ users[v].energy > 0


\* the order in which the rows of the users table were created
ArrivalRank == [alice |-> 1, bob |-> 2]

\* a leaderboard list in descending order of score, rows of equal score in
\* the order of their arrival
StablyRanked(list) ==
    \A i, j \in 1..Len(list) :
        i < j =>
            \/ list[i].score > list[j].score
            \/ /\ list[i].score = list[j].score
               /\ ArrivalRank[list[i].username] < ArrivalRank[list[j].username]

\* C34: every leaderboard list a connection holds is in descending order of
\* score with rows of equal score in arrival order, and has at most
\* LEADERBOARD_LIMIT entries.
C34_LeaderboardOrder ==
    \A s \in Sockets :
        ~leaderboardCache[s].isNull =>
            /\ Len(leaderboardCache[s].list) <= LEADERBOARD_LIMIT
            /\ StablyRanked(leaderboardCache[s].list)


\* C35: a 'use energy' run that storage answered emits 'energy error' exactly
\* when the regenerated amount was under the cost and the spend was not
\* applied (the stored amount is the regenerated amount); a run that lowered
\* the amount does not emit it.
C35_EnergyErrorMeansNotApplied ==
    [][(lastEvent'.handler = "use energy" /\ lastEvent'.outcome = "ok") =>
          LET u == lastEvent'.user
              regenerated == RegeneratedAmount(users[u], now)
          IN  "energy error" \in lastEvent'.toSocket <=>
                 /\ regenerated < GAME_ENERGY_COST
                 /\ users'[u].energy = regenerated]_vars


\* C36: a 'join game' whose token was verified and whose session set-up then
\* failed with 'auth_error' (database down, or the player lookup failed)
\* leaves a socket that was not authenticated before it not authenticated,
\* bound to no user and not counted among the connected users.
C36_FailedJoinLeavesNoSession ==
    [][\A s \in Sockets :
         (/\ lastEvent'.handler = "join game"
          /\ lastEvent'.socket = s
          /\ lastEvent'.outcome \in {"database down", "storage error"}
          /\ "auth_error" \in lastEvent'.toSocket
          /\ ~Authed(s)) =>
            /\ ~isAuthenticated'[s]
            /\ currentUser'[s] = NoUser
            /\ connectedUsers'[s] = connectedUsers[s]]_vars


\* C37: a step of a handler of a socket that is bound to a user, or of the
\* sweep's visit of such a socket, rewrites no row but that user's; a
\* 'join game' step rewrites no row but that of the user it binds.
C37_OnlyBoundIdentity ==
    [][\A s \in Sockets, u \in Users :
         (/\ lastEvent'.socket = s
          /\ users'[u] # users[u]
          /\ lastEvent'.handler = "join game" \/ Authed(s)) =>
            u = (IF lastEvent'.handler = "join game"
                 THEN currentUser'[s] ELSE currentUser[s])]_vars



\* C38: after the same upsertPlayer calls on an existing user, the three
\* adapters hold the same score and the same level for that user.
C38_AdaptersAgree ==
    \A a, b \in Adapters :
        /\ stores[a].score = stores[b].score
        /\ stores[a].level = stores[b].level

====
